---- MODULE Spec2Model ----
(***************************************************************************)
(* A state-machine model of the CWM tiling window manager: the per-tag    *)
(* BSP tree, client pool, focus stack, hidden queue and layer slots, the   *)
(* monitor/tag binding and the global window map.  Every request or X      *)
(* event handler is one action; a handler that panics aborts the process   *)
(* and leaves the model in the terminal state panic = TRUE.                *)
(***************************************************************************)
EXTENDS Integers, Sequences, FiniteSets, TLC

\* ------------------------------------------------------------------ bounds
MaxWindows == 4
MaxTags == 2
MaxMonitors == 2
MaxClients == 2
MaxRequests == 3
MaxLeaves == 3
MaxResizes == 2
MaxStreams == 2
MaxUnmaps == 2
MaxRules == 2
MaxCells == 5

\* --------------------------------------------------------------- constants
NONE == -1
STALE == -2
One == 134217728
Half == 67108864
SideMIN == 13421773
LayerCOUNT == 3
TILING == 0
FLOATING == 1
FULLSCREEN == 2
Below == 0
Normal == 3
Above == 6
FrameBase == 10
BorderWidth == 5

\* ------------------------------------------------------- Vec<T>, 0-based
At(v, i) == v[i + 1]
Put(v, i, x) == [v EXCEPT ![i + 1] = x]
InVec(v, i) == i >= 0 /\ i < Len(v)
Without(q, x) == SelectSeq(q, LAMBDA y: y # x)
Min(S) == CHOOSE x \in S: \A y \in S: x <= y
Insert(m, k, v) == (k :> v) @@ m
Remove(m, k) == [x \in (DOMAIN m) \ {k} |-> m[x]]

\* ------------------------------------------------------------- f32 ratios
\* A ratio in [0,1] is held as an integer count of 2^-27; f32 keeps 24
\* significant bits, so a result is rounded to a multiple of the ulp of its
\* binade, ties to even, as IEEE-754 subtraction does.
Ulp(n) == IF n >= 134217728 THEN 16 ELSE IF n >= 67108864 THEN 8 ELSE IF n >= 33554432 THEN 4
          ELSE IF n >= 16777216 THEN 2 ELSE 1
RoundF32(n) ==
    LET u == Ulp(n)
        lo == (n \div u) * u
        r == n - lo
    IN  IF 2 * r < u THEN lo
        ELSE IF 2 * r > u THEN lo + u
        ELSE IF (lo \div u) % 2 = 0 THEN lo ELSE lo + u
SideMAX == RoundF32(One - SideMIN)
Complement(ratio) == RoundF32(One - ratio)

\* f32 addition and subtraction round the exact result; a ratio is then held
\* in [Side::MIN, Side::MAX] by .min(Side::MAX).max(Side::MIN).
F32(n) == IF n < 0 THEN -RoundF32(-n) ELSE RoundF32(n)
Clamp(x) == IF x > SideMAX THEN SideMAX ELSE IF x < SideMIN THEN SideMIN ELSE x
\* ------------------------------------------------------------------- Rect
Rect(x, y, width, height) == [x |-> x, y |-> y, width |-> width, height |-> height]
U16(n) == n % 65536
\* (len as f32 * ratio).round(): len < 2^16 and ratio = k * 2^-27; the
\* product is taken in two halves so that no intermediate exceeds 31 bits.
Scale(len, ratio) ==
    LET hi == ratio \div 8192
        lo == ratio % 8192
    IN  (len * hi + 8192 + (len * lo) \div 8192) \div 16384
\* Rect::reposition: the origin is carried from the old container to the new.
reposition(r, old, new) ==
    [r EXCEPT !.x = new.x + ((r.x - old.x) * new.width) \div old.width,
              !.y = new.y + ((r.y - old.y) * new.height) \div old.height]
RectSplit(r, split, ratio, gap) ==
    IF split = "Vertical"
    THEN LET w1 == Scale(r.width, ratio)
         IN  <<Rect(r.x, r.y, U16(w1 - gap \div 2), r.height),
               Rect(r.x + w1 + gap \div 2, r.y, U16(r.width - w1 - gap \div 2), r.height)>>
    ELSE LET h1 == Scale(r.height, ratio)
         IN  <<Rect(r.x, r.y, r.width, U16(h1 - gap \div 2)),
               Rect(r.x, r.y + h1 + gap \div 2, r.width, U16(r.height - h1 - gap \div 2))>>

\* F applied to the world a step returned, unless that step panicked; and F
\* applied to a value computed once.
Then(w, F(_)) == IF w.panic THEN w ELSE F(w)
Bind(v, F(_)) == F(v)
\* ------------------------------------------------------- utils::Stack<T>
\* An arena of cells linked through next/prev; a handle is a cell index.
EmptyStack == [items |-> <<>>, free |-> <<>>, head |-> NONE, tail |-> NONE]
front(s) == IF s.head = NONE THEN NONE ELSE At(s.items, s.head).item
back(s) == IF s.tail = NONE THEN NONE ELSE At(s.items, s.tail).item
\* push_front that leaves the old head's prev link unset.
push_front_half_linked(s, item) ==
    [s |-> [s EXCEPT !.items = Append(@, [item |-> item, next |-> s.head, prev |-> NONE]),
                     !.head = Len(s.items),
                     !.tail = IF s.head = NONE THEN Len(s.items) ELSE s.tail],
     idx |-> Len(s.items)]
push_front(s, item) ==
    LET idx == Len(s.items)
        i1 == Append(s.items, [item |-> item, next |-> s.head, prev |-> NONE])
        i2 == IF s.head = NONE THEN i1
              ELSE Put(i1, s.head, [At(i1, s.head) EXCEPT !.prev = idx])
    IN  [s |-> [s EXCEPT !.items = i2, !.head = idx,
                         !.tail = IF s.head = NONE THEN idx ELSE s.tail],
         idx |-> idx]
push_back(s, item) ==
    LET idx == Len(s.items)
        i1 == Append(s.items, [item |-> item, next |-> NONE, prev |-> s.tail])
        i2 == IF s.tail = NONE THEN i1
              ELSE Put(i1, s.tail, [At(i1, s.tail) EXCEPT !.next = idx])
    IN  [s |-> [s EXCEPT !.items = i2, !.tail = idx,
                         !.head = IF s.tail = NONE THEN idx ELSE s.head],
         idx |-> idx]
Stack_remove_node(s, idx) ==
    LET prev == At(s.items, idx).prev
        next == At(s.items, idx).next
    IN  Bind(IF prev # NONE THEN Put(s.items, prev, [At(s.items, prev) EXCEPT !.next = next])
             ELSE s.items,
             LAMBDA i1:
               [s EXCEPT !.items = IF next # NONE
                                   THEN Put(i1, next, [At(i1, next) EXCEPT !.prev = prev])
                                   ELSE i1,
                         !.head = IF prev # NONE THEN @ ELSE next,
                         !.tail = IF next # NONE THEN @ ELSE prev])
\* The linked cells from `from` on, front to back, as a sequence of handles.
RECURSIVE Chain(_, _, _)
Chain(s, from, fuel) ==
    IF from = NONE \/ fuel = 0 THEN <<>>
    ELSE <<from>> \o Chain(s, At(s.items, from).next, fuel - 1)
Handles(s) == Chain(s, s.head, Len(s.items))
Items(s) == [i \in 1..Len(Handles(s)) |-> At(s.items, Handles(s)[i]).item]

\* ------------------------------------------------------------ connections
NoSelection == [kind |-> "None", tag |-> NONE, node |-> NONE, side |-> "Right", amt |-> Half]
Panic(w) == [w EXCEPT !.panic = TRUE]
Emit(w) == [w EXCEPT !.wire = TRUE]
SetTag(w, tid, t) == [w EXCEPT !.tags[tid] = t]

\* ------------------------------------------------------------------ hooks
\* Hooks::default(): no monitor entry, no subscriber, an empty snapshot.  A
\* stream is an integer; a tag's name is the atom it is interned as, and a
\* client's name is an integer, NONE for no name.
NoHooks ==
    [monitor_focused |-> <<>>, monitor_tags |-> [subs |-> <<>>, states |-> <<>>, mon |-> 0]]
\* TagState::default() paired with the id 0.
DefaultState == [name |-> 0, focused |-> NONE, urgent |-> FALSE, empty |-> FALSE, id |-> 0]
MonitorFocusedClient(name) == [kind |-> "MonitorFocusedClient", name |-> name]
TagStateMessage(states, mon) ==
    [kind |-> "TagState", mon |-> mon,
     states |-> [k \in 1..Len(states) |->
                    [name |-> states[k].name, focused |-> states[k].focused,
                     urgent |-> states[k].urgent, empty |-> states[k].empty]]]
\* Stream::send: the write fails on a stream whose peer has closed; `out`
\* lists the writes of this dispatch, each with the result send returned.
send(w, s, message) ==
    [w EXCEPT !.out = Append(@, [to |-> s, message |-> message, ok |-> s \notin w.broken])]
\* hooks.retain(|hook| hook.borrow_mut().send(&message)): what stays, what is sent.
retain_keep(w, q) == q
retain(w, q) == SelectSeq(q, LAMBDA s: s \notin w.broken)
SendEach(w, q, message) ==
    [w EXCEPT !.out = @ \o [k \in 1..Len(q) |->
                               [to |-> q[k], message |-> message, ok |-> q[k] \notin w.broken]]]
mon_open(w, mon) ==
    IF w.panic THEN w
    ELSE [w EXCEPT !.hooks.monitor_focused = Insert(@, mon, [subs |-> <<>>, curr |-> NONE])]
mon_close(w, mon) ==
    IF w.panic THEN w ELSE [w EXCEPT !.hooks.monitor_focused = Remove(@, mon)]
monitor_focus(w, id, focused) ==
    IF w.panic \/ id \notin DOMAIN w.hooks.monitor_focused THEN w
    ELSE IF w.hooks.monitor_focused[id].curr = focused THEN w
    ELSE SendEach([w EXCEPT !.hooks.monitor_focused[id] =
                               [subs |-> retain(w, @.subs), curr |-> focused]],
                  w.hooks.monitor_focused[id].subs, MonitorFocusedClient(focused))
add_monitor_focus(w, id, stream) ==
    IF w.panic \/ id \notin DOMAIN w.hooks.monitor_focused THEN w
    ELSE [send(w, stream, MonitorFocusedClient(w.hooks.monitor_focused[id].curr))
             EXCEPT !.hooks.monitor_focused[id].subs =
                        IF stream \in w.broken THEN @ ELSE Append(@, stream)]
add_monitor_tag(w, stream) ==
    IF w.panic THEN w
    ELSE [send(w, stream, TagStateMessage(w.hooks.monitor_tags.states, w.hooks.monitor_tags.mon))
             EXCEPT !.hooks.monitor_tags.subs =
                        IF stream \in w.broken THEN @ ELSE Append(@, stream)]
\* The snapshot entry of a tag: name, bound monitor, Tag::urgent, Tag::empty.
StateOf(t, old) ==
    [name |-> t.id, focused |-> t.monitor, urgent |-> t.urgent # {} \/ t.psuedo_urgent # {},
     empty |-> Len(t.clients) = Cardinality(t.free_clients), id |-> old.id]
\* update_tag: `||` stops at the first field that differs, and only that
\* field of the snapshot entry is brought up to date.
FirstChanged(old, new) ==
    IF old.name # new.name THEN [old EXCEPT !.name = new.name]
    ELSE IF old.focused # new.focused THEN [old EXCEPT !.focused = new.focused]
    ELSE IF old.urgent # new.urgent THEN [old EXCEPT !.urgent = new.urgent]
    ELSE IF old.empty # new.empty THEN [old EXCEPT !.empty = new.empty]
    ELSE old
update_tag(w, tid) ==
    IF w.panic THEN w
    ELSE LET mt == w.hooks.monitor_tags
             hits == {k \in 1..Len(mt.states): mt.states[k].id = w.tags[tid].id}
         IN  IF hits = {} THEN w
             ELSE Bind(FirstChanged(mt.states[Min(hits)],
                                    StateOf(w.tags[tid], mt.states[Min(hits)])), LAMBDA state:
                  IF state = mt.states[Min(hits)] THEN w
                  ELSE Bind([mt.states EXCEPT ![Min(hits)] = state], LAMBDA states:
                       SendEach([w EXCEPT !.hooks.monitor_tags.states = states,
                                          !.hooks.monitor_tags.subs = retain(w, @)],
                                mt.subs, TagStateMessage(states, mt.mon))))
\* tag_update: the snapshot is resized to the number of tags, then its
\* entries are paired with tag_order; zip asks tag_order for an element
\* before it asks the snapshot, so one tag past the snapshot is looked up.
Sized(states, n) ==
    IF Len(states) < n THEN states \o [k \in 1..(n - Len(states)) |-> DefaultState]
    ELSE SubSeq(states, 1, n)
Paired(w, sized) ==
    [k \in 1..Len(sized) |->
        IF k <= Len(w.tag_order) THEN StateOf(w.tags[w.tag_order[k]], sized[k]) ELSE sized[k]]
tag_update(w) ==
    IF w.panic THEN w
    ELSE Bind(w.hooks.monitor_tags, LAMBDA mt:
         Bind(Cardinality(DOMAIN w.tags), LAMBDA n:
         IF \E k \in 1..Len(w.tag_order): k <= n + 1 /\ w.tag_order[k] \notin DOMAIN w.tags
         THEN Panic(w)
         ELSE Bind(Paired(w, Sized(mt.states, n)), LAMBDA states:
              IF mt.mon = w.focused_monitor /\ Len(mt.states) = n /\ states = Sized(mt.states, n)
              THEN w
              ELSE SendEach([w EXCEPT !.hooks.monitor_tags =
                                         [subs |-> retain(w, mt.subs), states |-> states,
                                          mon |-> w.focused_monitor]],
                            mt.subs, TagStateMessage(states, w.focused_monitor)))))
\* Tag::set_active_window: only a tag shown on a monitor reports its name.
set_active_window(w, tid, name) ==
    IF w.panic \/ w.tags[tid].monitor = NONE THEN w
    ELSE monitor_focus(w, w.tags[tid].monitor, name)
\* Selection::hide with tag_ = Some(tid) and node_ = Some(node).
Selection_hide(w, tid, node) ==
    IF w.selection.kind # "None" /\ w.selection.tag = tid /\ w.selection.node = node
    THEN Emit([w EXCEPT !.selection = NoSelection])
    ELSE w
\* get_split with the two child positions exchanged.
get_split_mirrored(side) ==
    CASE side = "Left" -> [split |-> "Vertical", first |-> FALSE]
      [] side = "Right" -> [split |-> "Vertical", first |-> TRUE]
      [] side = "Top" -> [split |-> "Horizontal", first |-> FALSE]
      [] OTHER -> [split |-> "Horizontal", first |-> TRUE]
get_split(side) ==
    CASE side = "Left" -> [split |-> "Vertical", first |-> TRUE]
      [] side = "Right" -> [split |-> "Vertical", first |-> FALSE]
      [] side = "Top" -> [split |-> "Horizontal", first |-> TRUE]
      [] OTHER -> [split |-> "Horizontal", first |-> FALSE]

\* --------------------------------------------------------------- tag/node
NoParent == [idx |-> NONE, first |-> FALSE]
EmptyInfo == [kind |-> "Empty"]
Leaf(client, min_size, max_size, floating) ==
    [kind |-> "Leaf", client |-> client, min_size |-> min_size, max_size |-> max_size,
     floating |-> floating]
Node(parent, absent, rect, info) ==
    [parent |-> parent, absent |-> absent, rect |-> rect, info |-> info]
WalkFuel == 64

add_node(t, node) ==
    IF t.free_nodes # <<>>
    THEN LET idx == t.free_nodes[Len(t.free_nodes)]
         IN  [t |-> [t EXCEPT !.nodes = Put(t.nodes, idx, node),
                              !.free_nodes = SubSeq(t.free_nodes, 1, Len(t.free_nodes) - 1)],
              idx |-> idx]
    ELSE [t |-> [t EXCEPT !.nodes = Append(t.nodes, node)], idx |-> Len(t.nodes)]

apply_pos_size(w, tid, client) ==
    IF InVec(w.tags[tid].clients, client) THEN Emit(w) ELSE Panic(w)

\* Returns the world and the work list after one node has been laid out.
resize_node(w, tid, node, q, force) ==
    LET t == w.tags[tid]
        n == At(t.nodes, node)
        c1 == n.info.first_child
        c2 == n.info.second_child
        n1 == At(t.nodes, c1)
        n2 == At(t.nodes, c2)
        set(r1, r2) == SetTag(w, tid, [t EXCEPT !.nodes =
                           Put(Put(t.nodes, c1, [n1 EXCEPT !.rect = r1]), c2, [n2 EXCEPT !.rect = r2])])
    IN  IF n.info.kind # "Node" THEN [w |-> w, q |-> q]
        ELSE IF node = c1 \/ node = c2 \/ c1 = c2 THEN [w |-> Panic(w), q |-> q]
        ELSE IF t.monocle
             THEN [w |-> set(t.tiling_size, t.tiling_size), q |-> q \o <<c2, c1>>]
        ELSE IF n1.absent /\ ~n2.absent
             THEN [w |-> set(n1.rect, n.rect),
                   q |-> IF force THEN q \o <<c2, c1>> ELSE Append(q, c2)]
        ELSE IF ~n1.absent /\ n2.absent
             THEN [w |-> set(n.rect, n2.rect),
                   q |-> IF force THEN q \o <<c1, c2>> ELSE Append(q, c1)]
        ELSE IF ~n1.absent /\ ~n2.absent
             THEN LET rs == RectSplit(n.rect, n.info.split, n.info.ratio, w.theme.gap)
                  IN  [w |-> set(rs[1], rs[2]), q |-> q \o <<c2, c1>>]
        ELSE [w |-> w, q |-> q]

RECURSIVE Walk(_, _, _, _, _)
Walk(w, tid, q, force, fuel) ==
    IF w.panic \/ q = <<>> THEN w
    ELSE IF fuel = 0 THEN Panic(w)
    ELSE LET node_ == q[Len(q)]
             rest == SubSeq(q, 1, Len(q) - 1)
             n == At(w.tags[tid].nodes, node_)
         IN  IF n.info.kind = "Node"
             THEN Bind(resize_node(w, tid, node_, rest, force),
                       LAMBDA r: Walk(r.w, tid, r.q, force, fuel - 1))
             ELSE IF n.info.kind = "Leaf" /\ ~n.absent
             THEN Walk(apply_pos_size(w, tid, n.info.client), tid, rest, force, fuel - 1)
             ELSE Walk(w, tid, rest, force, fuel - 1)

\* The upward loop of propagate_absent: the tag after the flags are
\* recomputed, and the node the loop stopped at.
RECURSIVE AbsentUp(_, _, _)
AbsentUp(t, node, fuel) ==
    LET n == At(t.nodes, node)
        absent == At(t.nodes, n.info.first_child).absent /\ At(t.nodes, n.info.second_child).absent
    IN  IF n.info.kind # "Node" \/ n.absent = absent \/ fuel = 0
        THEN [t |-> t, stop |-> node]
        ELSE LET t1 == [t EXCEPT !.nodes = Put(t.nodes, node, [n EXCEPT !.absent = absent])]
             IN  IF n.parent.idx = NONE THEN [t |-> t1, stop |-> node]
                 ELSE AbsentUp(t1, n.parent.idx, fuel - 1)
propagate_absent(w, tid, node) ==
    IF w.panic THEN w
    ELSE Bind(AbsentUp(w.tags[tid], node, WalkFuel),
              LAMBDA r: Walk(SetTag(w, tid, r.t), tid, <<r.stop>>, FALSE, WalkFuel))

resize_tiled(w, tid) ==
    IF w.panic THEN w ELSE Walk(w, tid, <<0>>, FALSE, WalkFuel)

set_absent(w, tid, client, absent) ==
    IF w.panic THEN w
    ELSE LET t == w.tags[tid]
             node == At(t.clients, client).node
             n == At(t.nodes, node)
             marked == SetTag(w, tid, [t EXCEPT !.nodes = Put(@, node, [n EXCEPT !.absent = absent])])
         IN  Then(IF n.absent = absent THEN w
                  ELSE IF n.parent.idx # NONE THEN propagate_absent(marked, tid, n.parent.idx)
                  ELSE marked,
                  LAMBDA w1: IF absent THEN w1 ELSE resize_tiled(w1, tid))


\* ---------------------------------------------------------------- SetArg
SetArg(value, toggle) == [value |-> value, toggle |-> toggle]
\* Variants of SetArg<bool>::apply: one that reports a change on every call,
\* one whose toggle leaves the flag as it is.
apply_always(arg, cur) ==
    [changed |-> TRUE,
     val |-> IF cur # arg.value THEN arg.value ELSE IF arg.toggle THEN ~cur ELSE cur]
apply_keep(arg, cur) ==
    IF cur # arg.value THEN [changed |-> TRUE, val |-> arg.value]
    ELSE [changed |-> arg.toggle, val |-> cur]
\* SetArg<bool>::apply: the new value of the flag and whether it changed.
apply(arg, cur) ==
    IF cur # arg.value THEN [changed |-> TRUE, val |-> arg.value]
    ELSE IF arg.toggle THEN [changed |-> TRUE, val |-> ~cur]
    ELSE [changed |-> FALSE, val |-> cur]
apply_arg(arg, cur, last) ==
    IF cur # arg.value THEN [changed |-> TRUE, val |-> arg.value]
    ELSE IF arg.toggle /\ last # arg.value THEN [changed |-> TRUE, val |-> last]
    ELSE [changed |-> FALSE, val |-> cur]

\* ---------------------------------------------------------------- tag/mod
ScreenRect == Rect(0, 0, 1920, 1080)
Single(c) == [client |-> c]
IsSingle(layer) == layer % LayerCOUNT = FULLSCREEN
DefaultTag(id) ==
    [id |-> id,
     nodes |-> <<Node(NoParent, FALSE, ScreenRect, EmptyInfo)>>,
     clients |-> <<>>, free_nodes |-> <<>>, free_clients |-> {},
     focus_stack |-> EmptyStack,
     layers |-> [i \in 1..9 |-> IF IsSingle(i - 1) THEN Single(NONE) ELSE EmptyStack],
     size |-> ScreenRect, tiling_size |-> Rect(0, 0, 0, 0),
     focused |-> NONE, monitor |-> NONE,
     urgent |-> {}, psuedo_urgent |-> {}, hidden |-> <<>>,
     monocle |-> FALSE, temp |-> FALSE]

\* ------------------------------------------------------------- tag/client
get_layer(flags) ==
    IF flags.fullscreen THEN FULLSCREEN ELSE IF flags.floating THEN FLOATING ELSE TILING
flags_absent(flags) == flags.floating \/ flags.fullscreen \/ flags.hidden
Cl(w, tid, c) == At(w.tags[tid].clients, c)
SetCl(w, tid, c, cl) == [w EXCEPT !.tags[tid].clients = Put(@, c, cl)]

\* Client::hide unmaps the window and its frame and counts the two
\* UnmapNotify events they will cause.
Client_hide(w, tid, c) ==
    Selection_hide(Emit(SetCl(w, tid, c, [Cl(w, tid, c) EXCEPT !.ignore_unmaps = @ + 2])),
                   tid, Cl(w, tid, c).node)

focus_client(w, tid, c) ==
    IF w.panic THEN w
    ELSE LET t == w.tags[tid]
             cl == At(t.clients, c)
         IN  IF t.focused = c \/ cl.flags.hidden THEN w
             ELSE IF ~InVec(t.focus_stack.items, cl.stack_pos) THEN Panic(w)
             ELSE Bind(push_front(Stack_remove_node(t.focus_stack, cl.stack_pos), c),
                       LAMBDA p:
                         Bind(Emit(SetTag(w, tid,
                           [t EXCEPT !.focus_stack = p.s, !.focused = c,
                                     !.clients = Put(@, c,
                                         [cl EXCEPT !.stack_pos = p.idx, !.flags.psuedo_urgent = FALSE]),
                                     !.psuedo_urgent = @ \ {c}])), LAMBDA w1:
                         set_active_window(IF c \in t.psuedo_urgent THEN update_tag(w1, tid)
                                           ELSE w1, tid, cl.name)))

set_focus(w, tid) ==
    IF w.panic THEN w
    ELSE IF front(w.tags[tid].focus_stack) # NONE
         THEN focus_client(w, tid, front(w.tags[tid].focus_stack))
         ELSE set_active_window(Emit([w EXCEPT !.tags[tid].focused = NONE]), tid, NONE)

unset_focus(w, tid) ==
    IF w.panic \/ w.tags[tid].focused = NONE THEN w
    ELSE Emit([w EXCEPT !.tags[tid].focused = NONE])

\* -------------------------------------------------------------- tag/layer
\* Layer::remove on the slot a client's layer_pos names.
Layer_remove(w, tid, pos) ==
    LET l == At(w.tags[tid].layers, pos.layer)
    IN  IF IsSingle(pos.layer) THEN [w EXCEPT !.tags[tid].layers = Put(@, pos.layer, Single(NONE))]
        ELSE IF ~InVec(l.items, pos.idx) THEN Panic(w)
        ELSE [w EXCEPT !.tags[tid].layers = Put(@, pos.layer, Stack_remove_node(l, pos.idx))]

\* get_rect(idx).is_some()
has_rect(t, c) ==
    LET cl == At(t.clients, c)
    IN  cl.flags.fullscreen \/ ~cl.flags.floating \/ At(t.nodes, cl.node).info.kind = "Leaf"

\* Layer::front and Layer::back
Layer_front(l, layer) == IF IsSingle(layer) THEN l.client ELSE front(l)
Layer_back(l, layer) == IF IsSingle(layer) THEN l.client ELSE back(l)
\* get_layer_bound_below: the frame of the back of the first non-empty slot
\* from `layer` up; get_layer_bound_above: the frame of the front of the
\* first non-empty slot below `layer`, nearest first.
get_layer_bound_below(t, layer) ==
    LET hit == {k \in layer..8: Layer_back(At(t.layers, k), k) # NONE}
    IN  IF layer > 9 \/ hit = {} THEN NONE
        ELSE At(t.clients, Layer_back(At(t.layers, Min(hit)), Min(hit))).frame
get_layer_bound_above(t, layer) ==
    LET hit == {k \in 0..layer - 1: Layer_front(At(t.layers, k), k) # NONE}
        top == CHOOSE k \in hit: \A j \in hit: j <= k
    IN  IF layer > 9 \/ hit = {} THEN NONE
        ELSE At(t.clients, Layer_front(At(t.layers, top), top)).frame
\* The frames linked in each of the nine slots, front to back.
Slots(t) ==
    [k \in 1..9 |->
        IF IsSingle(k - 1)
        THEN (IF t.layers[k].client = NONE THEN <<>>
              ELSE <<At(t.clients, t.layers[k].client).frame>>)
        ELSE [i \in 1..Len(Items(t.layers[k])) |-> At(t.clients, Items(t.layers[k])[i]).frame]]
\* The stacking part of the ConfigureWindow request set_layer sends for the
\* frame of client idx, with the slots as the call finds them.
Restack(t, idx, focus) ==
    LET cl == At(t.clients, idx)
        layer == cl.layer + get_layer(cl.flags)
        bound == layer + (IF focus THEN 1 ELSE 0)
    IN  [client |-> idx, frame |-> cl.frame, layer |-> layer, focus |-> focus,
         slots |-> Slots(t),
         sibling |-> IF get_layer_bound_below(t, bound) # NONE
                     THEN get_layer_bound_below(t, bound)
                     ELSE get_layer_bound_above(t, bound),
         mode |-> IF get_layer_bound_below(t, bound) # NONE THEN "Below"
                  ELSE IF get_layer_bound_above(t, bound) # NONE THEN "Above" ELSE "None"]
RECURSIVE set_layer(_, _, _, _)
set_layer(w_, tid, idx, focus) ==
    IF w_.panic THEN w_
    ELSE LET t == w_.tags[tid]
             cl == At(t.clients, idx)
             layer == cl.layer + get_layer(cl.flags)
             l == At(t.layers, layer)
             old == l.client
             w == IF has_rect(t, idx)
                  THEN [w_ EXCEPT !.stacked = Append(@, Restack(t, idx, focus))] ELSE w_
             placed == Emit(SetTag(w, tid,
                         [t EXCEPT !.layers = Put(@, layer, Single(idx)),
                                   !.clients = Put(@, idx,
                                       [cl EXCEPT !.layer_pos = [layer |-> layer, idx |-> 0]])]))
             evicted == [placed EXCEPT !.tags[tid].clients =
                            Put(@, old, [At(@, old) EXCEPT !.flags.fullscreen = FALSE])]
         IN  IF ~has_rect(t, idx) THEN Panic(w)
             ELSE IF IsSingle(layer)
             THEN IF old = NONE THEN placed
                  ELSE set_layer(IF At(evicted.tags[tid].clients, old).flags.floating THEN evicted
                                 ELSE set_absent(evicted, tid, old, FALSE),
                                 tid, old, TRUE)
             ELSE Bind(IF focus THEN push_front(l, idx) ELSE push_back(l, idx),
                       LAMBDA p:
                         Emit(SetTag(w, tid,
                           [t EXCEPT !.layers = Put(@, layer, p.s),
                                     !.clients = Put(@, idx,
                                         [cl EXCEPT !.layer_pos = [layer |-> layer, idx |-> p.idx]])])))

switch_layer(w, tid, idx) ==
    IF w.panic THEN w
    ELSE LET cl == Cl(w, tid, idx)
             was == cl.layer_pos.layer % LayerCOUNT = TILING
             is == get_layer(cl.flags) % LayerCOUNT = TILING
         IN  set_layer(Then(Layer_remove(w, tid, cl.layer_pos),
                            LAMBDA w1: IF was = is THEN w1 ELSE set_absent(w1, tid, idx, was)),
                       tid, idx, TRUE)


\* ------------------------------------------------- tag/client: the flags
SetFlags(w, tid, c, flags) == SetCl(w, tid, c, [Cl(w, tid, c) EXCEPT !.flags = flags])

set_fullscreen(w, tid, client, arg) ==
    LET f == Cl(w, tid, client).flags
        r == apply(arg, f.fullscreen)
    IN  IF w.panic \/ ~r.changed THEN w
        ELSE switch_layer(SetFlags(w, tid, client, [f EXCEPT !.fullscreen = r.val]), tid, client)

set_floating(w, tid, client, arg) ==
    LET f == Cl(w, tid, client).flags
        r == apply(arg, f.floating)
    IN  IF w.panic \/ ~r.changed THEN w
        ELSE switch_layer(SetFlags(w, tid, client, [f EXCEPT !.floating = r.val]), tid, client)

set_hidden(w, tid, client_, arg) ==
    LET cl == Cl(w, tid, client_)
        r == apply(arg, cl.flags.hidden)
        w0 == SetFlags(w, tid, client_, [cl.flags EXCEPT !.hidden = r.val])
        s == w.tags[tid].focus_stack
    IN  IF w.panic \/ ~r.changed THEN w
        ELSE set_absent(
               IF r.val
               THEN Then(IF ~InVec(s.items, cl.stack_pos) THEN Panic(w)
                         ELSE set_focus([Client_hide(w0, tid, client_) EXCEPT
                                  !.tags[tid].focus_stack = Stack_remove_node(s, cl.stack_pos)], tid),
                         LAMBDA w3: [w3 EXCEPT !.tags[tid].hidden = Append(@, client_)])
               ELSE Bind(push_back(s, client_),
                         LAMBDA p:
                           [Emit(w0) EXCEPT !.tags[tid].focus_stack = p.s,
                                            !.tags[tid].hidden = Without(@, client_),
                                            !.tags[tid].clients =
                                                Put(@, client_, [At(@, client_) EXCEPT !.stack_pos = p.idx])]),
               tid, client_, r.val \/ cl.flags.floating \/ cl.flags.fullscreen)

set_stack_layer(w, tid, client, arg) ==
    LET cl == Cl(w, tid, client)
        r == apply_arg(arg, cl.layer, cl.last_layer)
    IN  IF w.panic \/ ~r.changed THEN w
        ELSE switch_layer(SetCl(w, tid, client, [cl EXCEPT !.layer = r.val, !.last_layer = cl.layer]),
                          tid, client)


\* A variant of cycle without the test of the stack's length.
cycle_always(w, tid, rev) ==
    LET t == w.tags[tid]
        s == t.focus_stack
        client_ == IF rev THEN back(s) ELSE front(s)
        cl == At(t.clients, client_)
    IN  IF w.panic THEN w
        ELSE IF client_ = NONE \/ ~InVec(t.clients, client_) \/ ~InVec(s.items, cl.stack_pos)
        THEN Panic(w)
        ELSE Bind(Stack_remove_node(s, cl.stack_pos), LAMBDA s1:
             Bind(IF rev THEN push_front(s1, client_) ELSE push_back(s1, client_), LAMBDA p:
             set_focus(set_layer(SetTag(w, tid,
                           [t EXCEPT !.focus_stack = p.s,
                                     !.clients = Put(@, client_, [cl EXCEPT !.stack_pos = p.idx])]),
                                 tid, front(p.s), TRUE), tid)))
\* A variant of cycle that takes the other end of the stack.
cycle_swapped(w, tid, rev) == cycle_always(w, tid, ~rev)
cycle(w, tid, rev) ==
    LET t == w.tags[tid]
        s == t.focus_stack
        client_ == IF rev THEN back(s) ELSE front(s)
        cl == At(t.clients, client_)
    IN  IF w.panic \/ Len(Handles(s)) < 2 THEN w
        ELSE IF ~InVec(s.items, cl.stack_pos) THEN Panic(w)
        ELSE Bind(Stack_remove_node(s, cl.stack_pos), LAMBDA s1:
             Bind(IF rev THEN push_front(s1, client_) ELSE push_back(s1, client_), LAMBDA p:
             set_focus(set_layer(SetTag(w, tid,
                           [t EXCEPT !.focus_stack = p.s,
                                     !.clients = Put(@, client_, [cl EXCEPT !.stack_pos = p.idx])]),
                                 tid, front(p.s), TRUE), tid)))
\* set_monocle without the recomputation of the tiled rects.
set_monocle_lazy(w, tid, arg) ==
    [w EXCEPT !.tags[tid].monocle = apply(arg, w.tags[tid].monocle).val]
set_monocle(w, tid, arg) ==
    LET r == apply(arg, w.tags[tid].monocle)
    IN  IF w.panic \/ ~r.changed THEN w
        ELSE resize_tiled([w EXCEPT !.tags[tid].monocle = r.val], tid)


\* ------------------------------------------- tag/node: growing the tree
\* Selection::presel: the split a pending preselection on (tid, node) asks
\* for, consumed by the call; otherwise the default split of the rect.
presel(w, tid, leaf_idx) ==
    LET sel == w.selection
        rect == At(w.tags[tid].nodes, leaf_idx).rect
    IN  IF sel.kind = "Presel" /\ sel.tag = tid /\ sel.node = leaf_idx
        THEN [w |-> Emit([w EXCEPT !.selection = NoSelection]),
              split |-> get_split(sel.side).split, first |-> get_split(sel.side).first,
              ratio |-> sel.amt]
        ELSE [w |-> w, split |-> IF rect.width > rect.height THEN "Vertical" ELSE "Horizontal",
              first |-> FALSE, ratio |-> Half]

split_leaf(w, tid, leaf_idx, absent, idx, info) ==
    IF w.panic THEN w
    ELSE Bind(presel(w, tid, leaf_idx), LAMBDA ps:
         Bind(add_node(ps.w.tags[tid],
                       Node([idx |-> leaf_idx, first |-> ~ps.first],
                            At(ps.w.tags[tid].nodes, leaf_idx).absent,
                            ps.w.tags[tid].tiling_size,
                            At(ps.w.tags[tid].nodes, leaf_idx).info)), LAMBDA a1:
         Bind(add_node(a1.t, Node([idx |-> leaf_idx, first |-> ps.first], absent,
                                  a1.t.tiling_size, info)), LAMBDA a2:
         LET leaf == At(ps.w.tags[tid].nodes, leaf_idx)
             first_child == a1.idx
             second_child == a2.idx
             node == At(a2.t.nodes, leaf_idx)
             isLeaf == node.info.kind = "Leaf"
             cs1 == IF isLeaf
                    THEN Put(a2.t.clients, node.info.client,
                             [At(a2.t.clients, node.info.client) EXCEPT !.node = first_child])
                    ELSE a2.t.clients
             inner == [kind |-> "Node", split |-> ps.split, ratio |-> ps.ratio,
                       first_child |-> IF ps.first THEN second_child ELSE first_child,
                       second_child |-> IF ps.first THEN first_child ELSE second_child]
             w3 == SetTag(ps.w, tid,
                      [a2.t EXCEPT !.nodes = Put(@, leaf_idx, [node EXCEPT !.info = inner]),
                                   !.clients = Put(cs1, idx, [At(cs1, idx) EXCEPT !.node = second_child])])
         IN  Then(IF leaf.absent /\ ~absent THEN propagate_absent(w3, tid, leaf_idx)
                  ELSE IF ~(a2.t.monocle \/ (leaf.absent /\ absent))
                       THEN resize_node(w3, tid, leaf_idx, <<>>, FALSE).w
                       ELSE w3,
                  LAMBDA w4: IF ~leaf.absent /\ isLeaf
                             THEN apply_pos_size(w4, tid, node.info.client) ELSE w4))))

\* pop_set takes an arbitrary element of the set: the dispatch's pick.
pop_set(w, S) == IF w.pick = 0 THEN Min(S) ELSE CHOOSE x \in S: \A y \in S: y <= x

\* Returns the world and the slot the client was put in.
add_client(w, tid, client, info_, focus) ==
    LET t == w.tags[tid]
        reuse == t.free_clients # {}
        slot == IF reuse THEN pop_set(w, t.free_clients) ELSE Len(t.clients)
        t1 == [t EXCEPT !.clients = IF reuse THEN Put(@, slot, client) ELSE Append(@, client),
                        !.free_clients = @ \ {slot}]
        info == IF info_.kind = "Leaf" THEN [info_ EXCEPT !.client = slot] ELSE info_
        isAbsent == flags_absent(client.flags)
        root == At(t.nodes, 0)
        target == IF front(t.focus_stack) # NONE THEN front(t.focus_stack)
                  ELSE IF t.hidden # <<>> THEN t.hidden[Len(t.hidden)] ELSE NONE
    IN  Bind(IF w.panic THEN w
             ELSE IF root.info.kind = "Empty"
             THEN SetTag(w, tid, [t1 EXCEPT
                      !.nodes = Put(@, 0, [root EXCEPT !.info = info, !.absent = isAbsent]),
                      !.clients = Put(@, slot, [client EXCEPT !.node = 0])])
             ELSE IF root.info.kind = "Node" /\ target = NONE THEN Panic(w)
             ELSE split_leaf(SetTag(w, tid, t1), tid,
                             IF root.info.kind = "Leaf" THEN 0 ELSE At(t1.clients, target).node,
                             isAbsent, slot, info),
             LAMBDA w2:
               [w |-> IF client.flags.hidden \/ w2.panic THEN w2
                      ELSE Bind(IF focus THEN push_front(w2.tags[tid].focus_stack, slot)
                                ELSE push_back(w2.tags[tid].focus_stack, slot),
                                LAMBDA p:
                                  [w2 EXCEPT !.tags[tid].focus_stack = p.s,
                                             !.tags[tid].clients =
                                                 Put(@, slot, [At(@, slot) EXCEPT !.stack_pos = p.idx])]),
                slot |-> slot])

\* ----------------------------------------- tag/node: shrinking the tree
remove_node(w, tid, node) ==
    IF w.panic THEN w
    ELSE LET t == w.tags[tid]
             parent == At(t.nodes, node).parent
             parent_ == parent.idx
             nodes1 == Put(t.nodes, node, [At(t.nodes, node) EXCEPT !.info = EmptyInfo])
             pn == At(nodes1, parent_)
             isNode == pn.info.kind = "Node"
             child == IF parent.first THEN pn.info.second_child ELSE pn.info.first_child
             last == IF isNode THEN child ELSE node
         IN  IF parent_ = NONE
             THEN SetTag(w, tid, [t EXCEPT !.nodes = nodes1, !.free_nodes = Append(@, node)])
             ELSE Bind(Put(nodes1, last, [At(nodes1, last) EXCEPT !.info = EmptyInfo]), LAMBDA nodes2:
                  Bind(IF isNode
                       THEN [At(nodes2, parent_) EXCEPT !.info = At(nodes1, child).info,
                                                        !.absent = At(nodes1, child).absent]
                       ELSE [At(nodes2, parent_) EXCEPT !.info = EmptyInfo], LAMBDA pn2:
                  Bind(Put(nodes2, parent_, pn2), LAMBDA nodes3:
                  propagate_absent(resize_tiled(SetTag(w, tid, [t EXCEPT
                      !.nodes = IF pn2.info.kind = "Node"
                                THEN Put(Put(nodes3, pn2.info.first_child,
                                             [At(nodes3, pn2.info.first_child) EXCEPT
                                                  !.parent = [idx |-> parent_, first |-> TRUE]]),
                                         pn2.info.second_child,
                                         [At(nodes3, pn2.info.second_child) EXCEPT
                                              !.parent = [idx |-> parent_, first |-> FALSE]])
                                ELSE nodes3,
                      !.free_nodes = IF isNode THEN @ \o <<node, child>> ELSE Append(@, node),
                      !.clients = IF pn2.info.kind = "Leaf"
                                  THEN Put(@, pn2.info.client,
                                           [At(@, pn2.info.client) EXCEPT !.node = parent_])
                                  ELSE @]), tid), tid, parent_))))


\* ------------------------------------------------ WindowManager: clients
WinClient(tag, client) == [kind |-> "Client", tag |-> tag, client |-> client, mon |-> NONE]
WinMonitor(kind, mon) == [kind |-> kind, tag |-> NONE, client |-> NONE, mon |-> mon]
focused_tag(w) == w.monitors[w.focused_monitor].focused_tag

remove_client(w, tag, client) ==
    IF w.panic THEN w
    ELSE IF tag \notin DOMAIN w.tags \/ w.focused_monitor \notin DOMAIN w.monitors THEN Panic(w)
    ELSE LET cl == Cl(w, tag, client)
             s == w.tags[tag].focus_stack
         IN  Then(Layer_remove([w EXCEPT !.tags[tag].urgent = @ \ {client},
                                         !.tags[tag].free_clients = @ \cup {client}],
                               tag, cl.layer_pos), LAMBDA w2:
             Then(IF cl.flags.hidden THEN w2
                  ELSE IF ~InVec(s.items, cl.stack_pos) THEN Panic(w2)
                  ELSE [w2 EXCEPT !.tags[tag].focus_stack = Stack_remove_node(s, cl.stack_pos)],
                  LAMBDA w3:
             Then(Bind(SetCl(w3, tag, client, [Cl(w3, tag, client) EXCEPT !.flags.hidden = TRUE]),
                       LAMBDA w4: IF tag = focused_tag(w) THEN set_focus(w4, tag) ELSE w4),
                  LAMBDA w5:
             Then(IF cl.node # 0
                  THEN remove_node([w5 EXCEPT !.windows = Remove(Remove(@, cl.win), cl.frame)],
                                   tag, cl.node)
                  ELSE [w5 EXCEPT !.windows = Remove(Remove(@, cl.win), cl.frame),
                                  !.tags[tag].nodes = Put(@, 0, [At(@, 0) EXCEPT !.info = EmptyInfo])],
                  LAMBDA w7: Selection_hide(w7, tag, cl.node)))))

unmanage_client(w, tag, client) ==
    Then(remove_client(w, tag, client), LAMBDA w1: tag_update(Emit(w1)))

\* The leaf a new window gets: its floating rect is centred in the tiling
\* region of the tag when the window states no position.
NewClient(win, args) ==
    [win |-> win, frame |-> FrameBase + win, node |-> 0, name |-> args.name, ignore_unmaps |-> 0,
     layer |-> Normal, last_layer |-> Normal, stack_pos |-> 0,
     layer_pos |-> [layer |-> 0, idx |-> 0],
     flags |-> [urgent |-> FALSE, hidden |-> FALSE, floating |-> args.floating,
                fullscreen |-> args.fullscreen, sticky |-> FALSE, psuedo_urgent |-> FALSE]]

\* ------------------------------------------------------------------ rules
\* A Rule: class, instance and name are NONE or a value; floating is NONE, 0
\* for Some(false) or 1 for Some(true); size and pos are <<>> for None or a pair.
Rule(class, instance, name, floating, size, pos, temp) ==
    [class |-> class, instance |-> instance, name |-> name, floating |-> floating,
     size |-> size, pos |-> pos, temp |-> temp]
Rule_apply(rule, args) ==
    [args EXCEPT !.floating = IF rule.floating = NONE THEN @ ELSE rule.floating = 1,
                 !.size = IF rule.size = <<>> THEN @ ELSE rule.size,
                 !.pos = IF rule.pos = <<>> THEN @ ELSE rule.pos]
\* PartialEq<Rule> for ClientArgs, one field: x of the window, y of the rule.
FieldEq(x, y) == IF x # NONE THEN (y = NONE \/ x = y) ELSE y = NONE
ArgsEq(args, rule) ==
    /\ FieldEq(args.name, rule.name) /\ FieldEq(args.instance, rule.instance)
    /\ FieldEq(args.class, rule.class)
\* rules.retain(|r| if args == r { !r.apply(args) } else { true })
RECURSIVE RetainRules(_, _, _)
RetainRules(todo, kept, args) ==
    IF todo = <<>> THEN [rules |-> kept, args |-> args]
    ELSE IF ArgsEq(args, Head(todo))
    THEN RetainRules(Tail(todo), IF Head(todo).temp THEN kept ELSE Append(kept, Head(todo)),
                     Rule_apply(Head(todo), args))
    ELSE RetainRules(Tail(todo), Append(kept, Head(todo)), args)
\* process_args for a window whose properties read as `args`.
process_args(w, args) ==
    [w |-> [w EXCEPT !.rules = RetainRules(w.rules, <<>>, args).rules],
     args |-> RetainRules(w.rules, <<>>, args).args]
AddRule(w, rule) == IF w.panic THEN w ELSE [w EXCEPT !.rules = Append(@, rule)]

manage_client(w, win, args) ==
    IF w.panic THEN w
    ELSE IF w.focused_monitor \notin DOMAIN w.monitors \/ focused_tag(w) \notin DOMAIN w.tags
    THEN Panic(w)
    ELSE LET tag_idx == focused_tag(w)
             ts == w.tags[tag_idx].tiling_size
             size == IF args.size = <<>> THEN <<args.width, args.height>>
                     ELSE <<U16(args.size[1] + BorderWidth * 2), U16(args.size[2] + BorderWidth * 2)>>
             floating_rect == IF args.pos = <<>>
                              THEN Rect(ts.x + (ts.width - size[1]) \div 2,
                                        ts.y + (ts.height - size[2]) \div 2, size[1], size[2])
                              ELSE Rect(args.pos[1] - BorderWidth, args.pos[2] - BorderWidth,
                                        size[1], size[2])
         IN  Bind(add_client(w, tag_idx, NewClient(win, args), Leaf(0, args.min_size, args.max_size, floating_rect),
                             args.focus),
                  LAMBDA a:
             Then(Then(set_layer(Emit(a.w), tag_idx, a.slot, args.focus),
                       LAMBDA w1: IF args.focus THEN focus_client(w1, tag_idx, a.slot) ELSE w1),
                  LAMBDA w2:
                    tag_update(
                    [w2 EXCEPT !.windows = Insert(Insert(@, FrameBase + win, WinClient(tag_idx, a.slot)),
                                                  win, WinClient(tag_idx, a.slot))])))

\* WindowManager::move_client: the world and the client's slot afterwards.
move_client(w, tag, client, set_dest) ==
    LET bound == tag \in DOMAIN w.tags /\ w.tags[tag].monitor # NONE
        dest == IF bound
                THEN apply_arg(set_dest, tag, w.monitors[w.tags[tag].monitor].prev_tag).val
                ELSE set_dest.value
        t == w.tags[tag]
        hide == w.tags[dest].monitor = NONE
        focus == client = front(t.focus_stack)
        client_ == [At(t.clients, client) EXCEPT !.ignore_unmaps = IF hide THEN @ + 2 ELSE @]
        info_ == At(t.nodes, client_.node).info
        info == IF info_.kind = "Leaf"
                THEN [info_ EXCEPT !.floating = reposition(@, t.size, w.tags[dest].size)]
                ELSE info_
        show == t.monitor = NONE /\ ~hide
    IN  IF w.panic THEN [w |-> w, slot |-> client]
        ELSE IF bound /\ w.tags[tag].monitor \notin DOMAIN w.monitors
             THEN [w |-> Panic(w), slot |-> client]
        ELSE IF tag = dest THEN [w |-> w, slot |-> client]
        ELSE IF dest \notin DOMAIN w.tags \/ tag \notin DOMAIN w.tags \/ ~InVec(t.clients, client)
             THEN [w |-> Panic(w), slot |-> client]
        ELSE Bind(add_client(remove_client(IF hide THEN Client_hide(w, tag, client) ELSE w,
                                           tag, client),
                             dest, client_, info, focus), LAMBDA a:
             Bind(Then(set_layer(a.w, dest, a.slot, focus), LAMBDA w3:
                       IF ~show THEN w3
                       ELSE IF ~client_.flags.hidden /\ focus /\ dest = focused_tag(w3)
                       THEN focus_client(Emit(w3), dest, a.slot) ELSE Emit(w3)), LAMBDA w4:
             IF w4.panic THEN [w |-> w4, slot |-> client]
             ELSE [w |-> tag_update([Emit(w4) EXCEPT !.windows =
                             Insert(Insert(@, client_.frame, WinClient(dest, a.slot)),
                                    client_.win, WinClient(dest, a.slot))]),
                   slot |-> a.slot]))


\* WindowManager::client_property, for a _NET_WM_NAME that reads as `value`
\* and for WM_HINTS whose urgent bit reads as `value`.
client_property(w, tag, client_, atom, value) ==
    IF w.panic THEN w
    ELSE IF tag \notin DOMAIN w.tags \/ ~InVec(w.tags[tag].clients, client_) THEN Panic(w)
    ELSE IF atom = "_NET_WM_NAME"
    THEN Bind(SetCl(w, tag, client_, [Cl(w, tag, client_) EXCEPT !.name = value]), LAMBDA w1:
              IF front(w1.tags[tag].focus_stack) = client_
              THEN set_active_window(w1, tag, value) ELSE w1)
    ELSE IF (client_ \in w.tags[tag].urgent) = value THEN w
    ELSE tag_update([SetCl(w, tag, client_, [Cl(w, tag, client_) EXCEPT !.flags.urgent = value])
                        EXCEPT !.tags[tag].urgent =
                                   IF value THEN @ \cup {client_} ELSE @ \ {client_}])

\* WindowManager::client_state for the state _NET_WM_STATE_DEMANDS_ATTENTION
\* when `demands`, for another state otherwise; action 0 removes, 1 adds,
\* 2 toggles.
client_state(w, tag, client_, demands, action) ==
    IF w.panic THEN w
    ELSE IF tag \notin DOMAIN w.tags \/ ~InVec(w.tags[tag].clients, client_) THEN Panic(w)
    ELSE IF action \notin 0..2 THEN w
    ELSE Bind(apply(IF action = 0 THEN SetArg(FALSE, FALSE)
                    ELSE IF action = 1 THEN SetArg(TRUE, FALSE) ELSE SetArg(FALSE, TRUE),
                    Cl(w, tag, client_).flags.psuedo_urgent), LAMBDA r:
         IF ~demands \/ w.tags[tag].focused = client_ \/ ~r.changed THEN w
         ELSE tag_update([SetCl(w, tag, client_,
                                [Cl(w, tag, client_) EXCEPT !.flags.psuedo_urgent = r.val])
                             EXCEPT !.tags[tag].psuedo_urgent =
                                        IF r.val THEN @ \cup {client_} ELSE @ \ {client_}]))

\* ------------------------------------------------ monitors and their tags
Theme == [gap |-> 4, left_margin |-> 4, right_margin |-> 4, top_margin |-> 4, bottom_margin |-> 4]
BgBase == 20
PanelStrut == 24
TempBase == 100
NewMonitor(id) ==
    [id |-> id, focused_tag |-> 0, prev_tag |-> 0, panels |-> {}, desktop_windows |-> {},
     sticky |-> {}, size |-> Rect((id - 1) * 1920, 0, 1920, 1080), bg |-> BgBase + id]
\* Monitor::free_rect: the monitor's rect less the largest strut of its panels.
free_rect(w, mon) ==
    LET m == w.monitors[mon]
        top == IF m.panels = {} THEN 0 ELSE PanelStrut
    IN  Rect(m.size.x, m.size.y + top, m.size.width, U16(m.size.height - top))
Tiling(w, r) ==
    Rect(r.x + w.theme.gap + w.theme.left_margin, r.y + w.theme.gap + w.theme.top_margin,
         U16(r.width - U16(w.theme.gap * 2 + w.theme.right_margin + w.theme.left_margin)),
         U16(r.height - U16(w.theme.gap * 2 + w.theme.bottom_margin + w.theme.top_margin)))

RECURSIVE ResizeAllWalk(_, _, _, _, _)
ResizeAllWalk(w, tid, q, new_size, fuel) ==
    IF w.panic \/ q = <<>> THEN w
    ELSE IF fuel = 0 THEN Panic(w)
    ELSE LET node_ == q[Len(q)]
             rest == SubSeq(q, 1, Len(q) - 1)
             t == w.tags[tid]
             n == At(t.nodes, node_)
         IN  IF n.info.kind = "Node"
             THEN Bind(resize_node(w, tid, node_, rest, TRUE),
                       LAMBDA r: ResizeAllWalk(r.w, tid, r.q, new_size, fuel - 1))
             ELSE IF n.info.kind = "Leaf"
             THEN ResizeAllWalk(
                      apply_pos_size(
                          SetTag(w, tid, [t EXCEPT !.nodes = Put(@, node_,
                              [n EXCEPT !.info.floating = reposition(@, t.size, new_size)])]),
                          tid, n.info.client),
                      tid, rest, new_size, fuel - 1)
             ELSE ResizeAllWalk(w, tid, rest, new_size, fuel - 1)
resize_all(w, tid, available, new_size) ==
    Bind(Tiling(w, available), LAMBDA ts:
         ResizeAllWalk([w EXCEPT !.tags[tid].nodes = Put(@, 0, [At(@, 0) EXCEPT !.rect = ts]),
                                 !.tags[tid].tiling_size = ts],
                       tid, <<0>>, new_size, WalkFuel))

\* A variant of set_tiling_size that lays the tree out anew on every call.
set_tiling_size_always(w, tid, available) ==
    Bind(Tiling(w, available), LAMBDA ts:
         resize_tiled([w EXCEPT !.tags[tid].nodes = Put(@, 0, [At(@, 0) EXCEPT !.rect = ts]),
                                !.tags[tid].tiling_size = ts], tid))
set_tiling_size(w, tid, available) ==
    Bind(Tiling(w, available), LAMBDA ts:
         IF ts = w.tags[tid].tiling_size THEN w
         ELSE resize_tiled([w EXCEPT !.tags[tid].nodes = Put(@, 0, [At(@, 0) EXCEPT !.rect = ts]),
                                     !.tags[tid].tiling_size = ts], tid))

\* Tag::hide
hide(w, tid) ==
    IF w.panic THEN w
    ELSE LET t == w.tags[tid]
             shown == {i \in 0..Len(t.clients) - 1:
                          ~At(t.clients, i).flags.sticky /\ ~At(t.clients, i).flags.hidden}
         IN  unset_focus(
                 [w EXCEPT !.tags[tid].monitor = NONE,
                           !.tags[tid].clients =
                               [k \in DOMAIN @ |->
                                   IF k - 1 \in shown THEN [@[k] EXCEPT !.ignore_unmaps = @ + 2]
                                   ELSE @[k]],
                           !.wire = @ \/ shown # {},
                           !.selection = IF @.kind # "None" /\ @.tag = tid
                                            /\ \E i \in shown: At(t.clients, i).node = @.node
                                         THEN NoSelection ELSE @],
                 tid)

\* Tag::set_monitor
set_monitor(w, tid, mon) ==
    IF w.panic \/ w.monitors[mon].focused_tag = tid THEN w
    ELSE Then(resize_all(w, tid, free_rect(w, mon), w.monitors[mon].size), LAMBDA w1:
              set_active_window(
                  [Emit(w1) EXCEPT !.tags[tid].monitor = mon,
                                   !.tags[tid].size = w.monitors[mon].size,
                                   !.monitors[mon].prev_tag = w.monitors[mon].focused_tag,
                                   !.monitors[mon].focused_tag = tid],
                  tid,
                  IF front(w1.tags[tid].focus_stack) = NONE THEN NONE
                  ELSE Cl(w1, tid, front(w1.tags[tid].focus_stack)).name))

RECURSIVE MoveSticky(_, _, _, _, _, _)
MoveSticky(w, mon, from, to, todo, done) ==
    IF w.panic THEN w
    ELSE IF todo = {} THEN [w EXCEPT !.monitors[mon].sticky = @ \cup done]
    ELSE Bind(move_client(w, from, Min(todo), SetArg(to, FALSE)), LAMBDA r:
              MoveSticky(r.w, mon, from, to, todo \ {Min(todo)}, done \cup {r.slot}))

set_monitor_tag(w, mon, tag) ==
    IF w.panic THEN w
    ELSE IF mon \notin DOMAIN w.monitors THEN Panic(w)
    ELSE LET old_tag == w.monitors[mon].focused_tag
             old_valid == old_tag \in DOMAIN w.tags
         IN  IF old_tag = tag THEN w
             ELSE IF tag \notin DOMAIN w.tags THEN Panic(w)
             ELSE Bind(IF old_valid THEN hide(w, old_tag) ELSE w, LAMBDA w1:
                  Bind(w1.tags[tag].monitor, LAMBDA old_mon:
                  Bind(Then(IF old_mon = NONE
                            THEN [w1 EXCEPT !.free_tags = (@ \ {tag}) \cup {old_tag}]
                            ELSE IF ~old_valid THEN hide(w1, tag)
                            ELSE IF old_mon \notin DOMAIN w1.monitors THEN Panic(w1)
                            ELSE Bind(set_monitor(hide(w1, tag), old_tag, old_mon), LAMBDA wb:
                                      MoveSticky([wb EXCEPT !.monitors[old_mon].sticky = {}],
                                                 old_mon, tag, old_tag,
                                                 wb.monitors[old_mon].sticky, {})),
                            LAMBDA w2: set_monitor(w2, tag, mon)), LAMBDA w3:
                  tag_update(
                  IF old_valid /\ ~w3.panic
                  THEN MoveSticky([w3 EXCEPT !.monitors[mon].sticky = {}], mon, old_tag, tag,
                                  w3.monitors[mon].sticky, {})
                  ELSE w3))))


switch_monitor_tag(w, mon, tag) ==
    IF w.panic THEN w
    ELSE LET m == w.monitors[mon]
             r == apply_arg(tag, m.focused_tag, m.prev_tag)
         IN  Then(IF mon \in DOMAIN w.monitors /\ r.changed
                  THEN Then(set_monitor_tag(w, mon, r.val), LAMBDA w1:
                            IF w1.selection.kind # "None"
                               /\ w1.selection.tag = w1.monitors[mon].prev_tag
                            THEN Emit([w1 EXCEPT !.selection = NoSelection]) ELSE w1)
                  ELSE w,
                  LAMBDA w3:
                    IF w3.focused_monitor # mon THEN w3
                    ELSE IF w3.focused_monitor \notin DOMAIN w3.monitors
                            \/ focused_tag(w3) \notin DOMAIN w3.tags THEN Panic(w3)
                    ELSE set_focus(w3, focused_tag(w3)))


\* pop_set_ord: the first tag of the display order that is in the free set.
pop_set_ord(free, order) ==
    LET hits == SelectSeq(order, LAMBDA id: id \in free)
    IN  IF hits = <<>> THEN NONE ELSE hits[1]

\* A temporary tag "temp_<n>" is the atom TempBase + n; the world and the id.
temp_tag(w) ==
    LET id == IF w.free_temp # <<>> THEN w.free_temp[Len(w.free_temp)]
              ELSE TempBase + Len(w.temp_tags)
    IN  [w |-> [w EXCEPT !.free_temp = IF @ # <<>> THEN SubSeq(@, 1, Len(@) - 1) ELSE @,
                         !.tags = Insert(@, id, [DefaultTag(id) EXCEPT !.temp = TRUE]),
                         !.tag_order = Append(@, id),
                         !.temp_tags = Append(@, id)],
         id |-> id]

add_monitor(w, id) ==
    Bind(IF DOMAIN w.monitors = {} THEN [w EXCEPT !.focused_monitor = id, !.prev_monitor = id]
         ELSE w, LAMBDA w0:
    Bind(pop_set_ord(w0.free_tags, w0.tag_order), LAMBDA popped:
    Bind(IF popped # NONE THEN [w |-> [w0 EXCEPT !.free_tags = @ \ {popped}], id |-> popped]
         ELSE temp_tag(w0), LAMBDA tt:
    Then(set_monitor_tag([tt.w EXCEPT !.monitors = Insert(@, id, NewMonitor(id))], id, tt.id),
         LAMBDA w2:
           mon_open([Emit(w2) EXCEPT !.monitors[id].prev_tag = tt.id,
                                     !.supporting = TRUE,
                                     !.windows = Insert(@, BgBase + id, WinMonitor("Monitor", id))],
                    id)))))

RECURSIVE MoveAll(_, _, _, _)
MoveAll(w, tag, new_tag, todo) ==
    IF w.panic \/ todo = {} THEN w
    ELSE MoveAll(move_client(w, tag, Min(todo), SetArg(new_tag, FALSE)).w, tag, new_tag,
                 todo \ {Min(todo)})

remove_tag(w, tag) ==
    IF w.panic \/ w.free_tags = {} THEN w
    ELSE IF tag \notin DOMAIN w.tags THEN Panic(w)
    ELSE LET mon_ == w.tags[tag].monitor
             m == w.monitors[mon_]
             popped == pop_set_ord(w.free_tags, w.tag_order)
             fromPrev == m.prev_tag # m.focused_tag
             new_tag == IF mon_ = NONE THEN focused_tag(w)
                        ELSE IF fromPrev THEN m.prev_tag ELSE popped
             temp == w.tags[tag].temp
         IN  IF (mon_ # NONE /\ (mon_ \notin DOMAIN w.monitors \/ (~fromPrev /\ popped = NONE)))
                \/ (mon_ = NONE /\ w.focused_monitor \notin DOMAIN w.monitors)
             THEN Panic(w)
             ELSE Then(IF mon_ = NONE THEN w
                       ELSE Then(switch_monitor_tag(
                                     IF fromPrev THEN w ELSE [w EXCEPT !.free_tags = @ \ {popped}],
                                     mon_, SetArg(new_tag, FALSE)),
                                 LAMBDA wb: [wb EXCEPT !.monitors[mon_].prev_tag = new_tag]),
                       LAMBDA w1:
                  Then(MoveAll(w1, tag, new_tag,
                               {i \in 0..Len(w1.tags[tag].clients) - 1:
                                    i \notin w1.tags[tag].free_clients}),
                       LAMBDA w2:
                         tag_update(
                         [w2 EXCEPT !.tag_order = Without(@, tag),
                                    !.tags = Remove(@, tag),
                                    !.temp_tags = IF temp THEN Without(@, tag) ELSE @,
                                    !.free_temp = IF temp THEN Append(@, tag) ELSE @])))

add_tag(w, id) ==
    IF w.panic \/ id \in DOMAIN w.tags THEN w
    ELSE Bind([w EXCEPT !.tags = Insert(@, id, DefaultTag(id)),
                        !.free_tags = @ \cup {id},
                        !.tag_order = Append(@, id)], LAMBDA w1:
              tag_update(
              IF w1.temp_tags = <<>> THEN w1
              ELSE remove_tag([w1 EXCEPT !.temp_tags = SubSeq(@, 1, Len(@) - 1)],
                              w1.temp_tags[Len(w1.temp_tags)])))

remove_monitor(w, mon) ==
    LET known == mon \in DOMAIN w.monitors
        m == w.monitors[mon]
        t == w.tags[m.focused_tag]
    IN  IF w.panic THEN w
        ELSE IF known /\ (m.focused_tag \notin DOMAIN w.tags
                          \/ \E c \in m.sticky: ~InVec(t.clients, c)) THEN Panic(w)
        ELSE Bind(IF ~known THEN w
                  ELSE mon_close(
                       [hide([Emit(w) EXCEPT
                                !.monitors = Remove(@, mon), !.windows = Remove(@, m.bg),
                                !.tags[m.focused_tag].clients =
                                    [i \in DOMAIN @ |->
                                        IF (i - 1) \in m.sticky
                                        THEN [@[i] EXCEPT !.flags.sticky = FALSE] ELSE @[i]]],
                             m.focused_tag)
                        EXCEPT !.free_tags = @ \cup {m.focused_tag}], mon), LAMBDA w3:
             Bind(SelectSeq(w3.temp_tags, LAMBDA id: id \in w3.free_tags), LAMBDA free:
             Bind(IF free # <<>> THEN free[1]
                  ELSE IF w3.temp_tags # <<>> THEN w3.temp_tags[Len(w3.temp_tags)] ELSE NONE,
                  LAMBDA victim:
             IF Cardinality(DOMAIN w3.tags) > Cardinality(DOMAIN w3.monitors) /\ victim # NONE
             THEN remove_tag(w3, victim)
             ELSE w3)))


\* ----------------------------------------------------- tag/node: resizing
RECURSIVE Pow2(_)
Pow2(k) == IF k <= 0 THEN 1 ELSE 2 * Pow2(k - 1)
\* floor(num * 2^n / den) and the remainder, for 0 <= num < den < 2^16 and
\* n <= 14.
DivBits(num, den, n) == [q |-> (num * Pow2(n)) \div den, r |-> (num * Pow2(n)) % den]
RECURSIVE BitLen(_)
BitLen(n) == IF n = 0 THEN 0 ELSE 1 + BitLen(n \div 2)
\* x rounded to a multiple of u, ties to even; `above` and `tie` place the
\* part of the value below one unit of x against one half of u.
RoundTo(x, u, above, tie) ==
    LET lo == (x \div u) * u
    IN  IF above \/ (tie /\ (lo \div u) % 2 = 1) THEN lo + u ELSE lo
\* num as f32 / den as f32 for 0 < num < den < 2^16: the quotient rounded to
\* 24 significant bits, as hi * 2^-27 + lo * 2^-40 with 0 <= lo < 2^13.
DivF32(num, den) ==
    LET a == DivBits(num, den, 14)
        b == DivBits(a.r, den, 13)
        h == [q |-> a.q * 8192 + b.q, r |-> b.r]
        l == DivBits(h.r, den, 13)
        k == BitLen(h.q) - 11
    IN  IF k >= 13
        THEN LET u == Pow2(k - 13)
                 rem == h.q % u
                 rest == l.q # 0 \/ l.r # 0
             IN  [hi |-> IF u = 1
                         THEN RoundTo(h.q, 1, l.q > 4096 \/ (l.q = 4096 /\ l.r # 0),
                                      l.q = 4096 /\ l.r = 0)
                         ELSE RoundTo(h.q, u, 2 * rem > u \/ (2 * rem = u /\ rest),
                                      2 * rem = u /\ ~rest),
                  lo |-> 0]
        ELSE LET v == Pow2(k)
                 rem == l.q % v
                 ql == RoundTo(l.q, v, 2 * rem > v \/ (2 * rem = v /\ l.r # 0),
                               2 * rem = v /\ l.r = 0)
             IN  IF ql = 8192 THEN [hi |-> h.q + 1, lo |-> 0] ELSE [hi |-> h.q, lo |-> ql]
\* The sum kept within 0.0..1.0 only.
AddQuotient_wide(ratio, delta, len) ==
    IF delta > 0 THEN One ELSE IF delta < 0 THEN 0 ELSE ratio
\* (ratio + delta as f32 / len as f32).min(Side::MAX).max(Side::MIN): the
\* quotient and the sum are each rounded once; x / 0.0 is an infinity of the
\* sign of x, 0.0 / 0.0 is NaN, and NaN.min(MAX) is MAX.
AddQuotient(ratio, delta, len) ==
    IF delta = 0 THEN (IF len = 0 THEN SideMAX ELSE Clamp(ratio))
    ELSE IF delta >= len THEN SideMAX
    ELSE IF -delta >= len THEN SideMIN
    ELSE Bind(DivF32(IF delta < 0 THEN -delta ELSE delta, len), LAMBDA d:
         Bind(IF delta > 0 THEN ratio + d.hi
              ELSE IF d.lo = 0 THEN ratio - d.hi ELSE ratio - d.hi - 1, LAMBDA sh:
         Bind(IF delta > 0 \/ d.lo = 0 THEN d.lo ELSE 8192 - d.lo, LAMBDA sl:
         IF sh < SideMIN THEN SideMIN
         ELSE IF sh >= SideMAX THEN SideMAX
         ELSE Bind(Ulp(sh), LAMBDA u:
              Bind(sh % u, LAMBDA rem:
              Clamp(IF u = 1
                    THEN RoundTo(sh, 1, sl > 4096, sl = 4096)
                    ELSE RoundTo(sh, u, 2 * rem > u \/ (2 * rem = u /\ sl # 0),
                                 2 * rem = u /\ sl = 0)))))))

I16(n) == ((n + 32768) % 65536) - 32768
\* Tag::get_split_parent: the nearest ancestor split along the side's axis
\* whose rect reaches further on that side than the node's, and the number
\* of ancestors passed; a parent chain that never ends is not ok.
RECURSIVE SplitParentUp(_, _, _, _, _, _)
SplitParentUp(t, node_rect, split_dir, p, i, fuel) ==
    IF p = NONE THEN [parent |-> NONE, depth |-> i, ok |-> TRUE]
    ELSE IF fuel = 0 \/ ~InVec(t.nodes, p) THEN [parent |-> NONE, depth |-> i, ok |-> FALSE]
    ELSE LET parent == At(t.nodes, p)
             rect == parent.rect
             vertical == parent.info.kind = "Node" /\ parent.info.split = "Vertical"
             horizontal == parent.info.kind = "Node" /\ parent.info.split = "Horizontal"
             found ==
                 \/ vertical /\ split_dir = "Left" /\ rect.x < node_rect.x
                 \/ vertical /\ split_dir = "Right"
                        /\ I16(rect.x + I16(rect.width)) > I16(node_rect.x + I16(node_rect.width))
                 \/ horizontal /\ split_dir = "Top" /\ rect.y < node_rect.y
                 \/ horizontal /\ split_dir = "Bottom"
                        /\ I16(rect.y + I16(rect.height)) > I16(node_rect.y + I16(node_rect.height))
         IN  IF found THEN [parent |-> p, depth |-> i, ok |-> TRUE]
             ELSE SplitParentUp(t, node_rect, split_dir, parent.parent.idx, i + 1, fuel - 1)
get_split_parent(t, node, split_dir) ==
    SplitParentUp(t, At(t.nodes, node).rect, split_dir, At(t.nodes, node).parent.idx, 0, WalkFuel)
\* One axis of the floating arm: the new extent and origin.
ResizeAxis(pos, len, delta, near, min, max) ==
    LET raw == IF near THEN U16(len - U16(delta)) ELSE U16(len + U16(delta))
        capped == IF raw > max THEN max ELSE raw
        new == IF capped < min THEN min ELSE capped
    IN  [len |-> new, pos |-> IF near THEN I16(pos - I16(I16(new) - I16(len))) ELSE pos]
AuxResizeSelection(w, tid) ==
    IF w.selection.kind # "None" /\ w.selection.tag = tid THEN Emit(w) ELSE w
resize_client(w, tid, client, dx, dy, left, top) ==
    IF w.panic THEN w
    ELSE IF ~InVec(w.tags[tid].clients, client)
            \/ ~InVec(w.tags[tid].nodes, At(w.tags[tid].clients, client).node)
    THEN Panic(w)
    ELSE LET t == w.tags[tid]
             cl == At(t.clients, client)
             node == cl.node
             n == At(t.nodes, node)
         IN  IF cl.flags.fullscreen THEN w
             ELSE IF cl.flags.floating
             THEN IF n.info.kind # "Leaf" THEN w
                  ELSE LET f == n.info.floating
                           h == ResizeAxis(f.x, f.width, dx, left,
                                           n.info.min_size[1], n.info.max_size[1])
                           v == ResizeAxis(f.y, f.height, dy, top,
                                           n.info.min_size[2], n.info.max_size[2])
                       IN  apply_pos_size(
                               SetTag(w, tid, [t EXCEPT !.nodes = Put(@, node,
                                   [n EXCEPT !.info.floating =
                                       Rect(h.pos, v.pos, h.len, v.len)])]),
                               tid, client)
             ELSE Bind(get_split_parent(t, node, IF left THEN "Left" ELSE "Right"), LAMBDA ph:
                  Bind(get_split_parent(t, node, IF top THEN "Top" ELSE "Bottom"), LAMBDA pv:
                  IF ~ph.ok \/ ~pv.ok THEN Panic(w)
                  ELSE LET n1 == IF ph.parent = NONE THEN t.nodes
                                 ELSE Put(t.nodes, ph.parent,
                                          [At(t.nodes, ph.parent) EXCEPT !.info.ratio =
                                              AddQuotient(@, dx, At(t.nodes, ph.parent).rect.width)])
                           q1 == IF ph.parent # NONE /\ (pv.parent = NONE \/ ph.depth > pv.depth)
                                 THEN <<ph.parent>> ELSE <<>>
                           n2 == IF pv.parent = NONE THEN n1
                                 ELSE Put(n1, pv.parent,
                                          [At(n1, pv.parent) EXCEPT !.info.ratio =
                                              AddQuotient(@, dy, At(n1, pv.parent).rect.height)])
                           q2 == IF pv.parent # NONE /\ q1 = <<>> THEN <<pv.parent>> ELSE q1
                       IN  Then(Walk(SetTag(w, tid, [t EXCEPT !.nodes = n2]), tid, q2, FALSE,
                                     WalkFuel),
                                LAMBDA w1: AuxResizeSelection(w1, tid))))

\* --------------------------------------------------- tag/node: rotation
\* A variant of rotate_nodes whose Vertical arm leaves the split Vertical.
rotate_nodes_stuck(t, _node, _child1, _child2, rev) ==
    LET node == At(t.nodes, _node)
        info == node.info
        swap == (info.split = "Horizontal" /\ ~rev) \/ (info.split = "Vertical" /\ rev)
        info1 == [info EXCEPT !.split = "Vertical",
                              !.first_child = IF swap THEN _child2 ELSE @,
                              !.second_child = IF swap THEN _child1 ELSE @,
                              !.ratio = IF swap THEN Complement(@) ELSE @]
        n1 == Put(t.nodes, _node, [node EXCEPT !.info = info1])
        n2 == Put(n1, _child1, [At(n1, _child1) EXCEPT !.parent = [idx |-> _node, first |-> FALSE]])
        n3 == Put(n2, _child2, [At(n2, _child2) EXCEPT !.parent = [idx |-> _node, first |-> TRUE]])
    IN  [t EXCEPT !.nodes = IF swap THEN n3 ELSE n1]
rotate_nodes(t, _node, _child1, _child2, rev) ==
    LET node == At(t.nodes, _node)
        info == node.info
        swap == (info.split = "Horizontal" /\ ~rev) \/ (info.split = "Vertical" /\ rev)
        info1 == [info EXCEPT !.split = IF @ = "Horizontal" THEN "Vertical" ELSE "Horizontal",
                              !.first_child = IF swap THEN _child2 ELSE @,
                              !.second_child = IF swap THEN _child1 ELSE @,
                              !.ratio = IF swap THEN Complement(@) ELSE @]
        n1 == Put(t.nodes, _node, [node EXCEPT !.info = info1])
        n2 == Put(n1, _child1, [At(n1, _child1) EXCEPT !.parent = [idx |-> _node, first |-> FALSE]])
        n3 == Put(n2, _child2, [At(n2, _child2) EXCEPT !.parent = [idx |-> _node, first |-> TRUE]])
    IN  [t EXCEPT !.nodes = IF swap THEN n3 ELSE n1]

RECURSIVE RotateWalk(_, _, _, _, _)
RotateWalk(w, tid, q, rev, fuel) ==
    IF w.panic \/ q = <<>> THEN w
    ELSE IF fuel = 0 THEN Panic(w)
    ELSE LET node == q[Len(q)]
             rest == SubSeq(q, 1, Len(q) - 1)
             t == w.tags[tid]
             info == At(t.nodes, node).info
         IN  IF info.kind # "Node" THEN RotateWalk(w, tid, rest, rev, fuel - 1)
             ELSE IF node = info.first_child \/ node = info.second_child
                     \/ info.first_child = info.second_child
             THEN Panic(w)
             ELSE RotateWalk(
                      SetTag(w, tid, rotate_nodes(t, node, info.first_child, info.second_child, rev)),
                      tid, rest \o <<info.first_child, info.second_child>>, rev, fuel - 1)
rotate(w, tid, node, rev) == resize_tiled(RotateWalk(w, tid, <<node>>, rev, WalkFuel), tid)

\* -------------------------------------------------- connections: requests
NoClient == [tag |-> NONE, client |-> NONE]
\* get_client: a window id, or NONE for the focused client of the focused tag.
get_client(w, sel) ==
    IF sel # NONE
    THEN IF sel \in DOMAIN w.windows /\ w.windows[sel].kind = "Client"
         THEN [tag |-> w.windows[sel].tag, client |-> w.windows[sel].client] ELSE NoClient
    ELSE LET f == front(w.tags[focused_tag(w)].focus_stack)
         IN  IF f = NONE THEN NoClient ELSE [tag |-> focused_tag(w), client |-> f]
NoFocus(w) == w.focused_monitor \notin DOMAIN w.monitors \/ focused_tag(w) \notin DOMAIN w.tags
\* A request arm of the form `if let Some((tag, client)) = get_client(sel) {..}`.
OnClient(w, sel, F(_, _, _)) ==
    IF w.panic THEN w
    ELSE IF sel = NONE /\ NoFocus(w) THEN Panic(w)
    ELSE LET g == get_client(w, sel)
         IN  IF g.tag = NONE THEN w
             ELSE IF g.tag \notin DOMAIN w.tags \/ ~InVec(w.tags[g.tag].clients, g.client)
             THEN Panic(w)
             ELSE F(w, g.tag, g.client)
\* get_tag: TagSelection::Id(tag), or NONE for TagSelection::Focused(None).
get_tag(w, sel) ==
    IF sel = NONE THEN focused_tag(w) ELSE IF sel \in DOMAIN w.tags THEN sel ELSE NONE
OnTag(w, sel, F(_, _)) ==
    IF w.panic THEN w
    ELSE IF sel = NONE /\ w.focused_monitor \notin DOMAIN w.monitors THEN Panic(w)
    ELSE IF get_tag(w, sel) = NONE THEN w
    ELSE IF get_tag(w, sel) \notin DOMAIN w.tags THEN Panic(w)
    ELSE F(w, get_tag(w, sel))

set_sticky(w, tag, client, arg) ==
    LET mon == w.tags[tag].monitor
        r == apply(arg, Cl(w, tag, client).flags.sticky)
        w1 == SetCl(w, tag, client, [Cl(w, tag, client) EXCEPT !.flags.sticky = r.val])
    IN  IF mon = NONE \/ ~r.changed THEN w
        ELSE IF mon \notin DOMAIN w.monitors THEN Panic(w1)
        ELSE [w1 EXCEPT !.monitors[mon].sticky = IF r.val THEN @ \cup {client} ELSE @ \ {client}]


SetFullscreen(w, sel, arg) == OnClient(w, sel, LAMBDA a, t, c: set_fullscreen(a, t, c, arg))
SetLayer(w, sel, arg) == OnClient(w, sel, LAMBDA a, t, c: set_stack_layer(a, t, c, arg))
SetFloating(w, sel, arg) == OnClient(w, sel, LAMBDA a, t, c: set_floating(a, t, c, arg))
SetSticky(w, sel, arg) == OnClient(w, sel, LAMBDA a, t, c: set_sticky(a, t, c, arg))
SetHidden(w, sel, arg) == OnClient(w, sel, LAMBDA a, t, c: set_hidden(a, t, c, arg))
SetMonocle(w, sel, arg) == OnTag(w, sel, LAMBDA a, t: set_monocle(a, t, arg))
CycleWindow(w, rev) == IF w.panic THEN w ELSE IF NoFocus(w) THEN Panic(w) ELSE cycle(w, focused_tag(w), rev)
\* ClientRequest::ConfigGap(gap): the new gap, then the tiling region of the
\* focused tag of every monitor.
RECURSIVE GapMonitors(_, _)
GapMonitors(w, todo) ==
    IF w.panic \/ todo = {} THEN w
    ELSE IF w.monitors[Min(todo)].focused_tag \notin DOMAIN w.tags THEN Panic(w)
    ELSE GapMonitors(set_tiling_size(w, w.monitors[Min(todo)].focused_tag,
                                     free_rect(w, Min(todo))),
                     todo \ {Min(todo)})
ConfigGap(w, gap) ==
    IF w.panic THEN w ELSE GapMonitors([w EXCEPT !.theme.gap = gap], DOMAIN w.monitors)
FocusTag(w, mon, tag, toggle) ==
    OnTag(w, tag, LAMBDA a, t:
        IF mon # NONE /\ mon \notin DOMAIN a.monitors THEN a
        ELSE switch_monitor_tag(a, IF mon = NONE THEN a.focused_monitor ELSE mon,
                                SetArg(t, toggle)))
SetWindowTag(w, sel, tag, toggle) ==
    OnTag(w, tag, LAMBDA a, dest:
        OnClient(a, sel, LAMBDA b, t, c: move_client(b, t, c, SetArg(dest, toggle)).w))
Rotate(w, rev) ==
    IF w.panic THEN w
    ELSE IF w.selection.kind = "Node"
    THEN IF w.selection.tag \in DOMAIN w.tags THEN rotate(w, w.selection.tag, w.selection.node, rev)
         ELSE Panic(w)
    ELSE OnTag(w, NONE, LAMBDA a, t: rotate(a, t, 0, rev))


\* A preselection on the focused client's leaf, or a change of its side.
SelectDir(w, side) ==
    IF w.panic THEN w
    ELSE IF w.selection.kind = "Node"
    THEN IF w.selection.tag \notin DOMAIN w.tags
            \/ ~InVec(w.tags[w.selection.tag].nodes, w.selection.node) THEN Panic(w)
         ELSE LET info == At(w.tags[w.selection.tag].nodes, w.selection.node).info
                  gs == get_split(side)
              IN  Emit(IF info.kind = "Node"
                       THEN IF info.split # gs.split THEN w
                            ELSE [w EXCEPT !.selection.node =
                                     IF gs.first THEN info.first_child ELSE info.second_child]
                       ELSE IF info.kind = "Leaf"
                       THEN [w EXCEPT !.selection.kind = "Presel", !.selection.side = side,
                                      !.selection.amt = Half]
                       ELSE w)
    ELSE IF w.selection.kind = "Presel"
    THEN IF w.selection.tag \notin DOMAIN w.tags THEN Panic(w)
         ELSE Emit([w EXCEPT !.selection.side = side])
    ELSE OnClient(w, NONE, LAMBDA a, t, c:
             Emit([a EXCEPT !.selection = [kind |-> "Presel", tag |-> t, node |-> Cl(a, t, c).node,
                                           side |-> side, amt |-> Half]]))
\* ClientRequest::Select, SelectParent and SelectionCancel.
Select(w, sel) ==
    OnClient(w, sel, LAMBDA a, t, c:
        Emit([a EXCEPT !.selection = [NoSelection EXCEPT !.kind = "Node", !.tag = t,
                                                         !.node = Cl(a, t, c).node]]))
SelectParentOf(w, tid, node) ==
    IF tid \notin DOMAIN w.tags \/ ~InVec(w.tags[tid].nodes, node) THEN Panic(w)
    ELSE IF At(w.tags[tid].nodes, node).parent.idx = NONE THEN w
    ELSE Emit([w EXCEPT !.selection = [NoSelection EXCEPT !.kind = "Node", !.tag = tid,
                                          !.node = At(w.tags[tid].nodes, node).parent.idx]])
SelectParent(w) ==
    IF w.panic THEN w
    ELSE IF w.selection.kind # "None" THEN SelectParentOf(w, w.selection.tag, w.selection.node)
    ELSE OnClient(w, NONE, LAMBDA a, t, c: SelectParentOf(a, t, Cl(a, t, c).node))
SelectionCancel(w) ==
    IF w.panic \/ w.selection.kind = "None" THEN w
    ELSE Emit([w EXCEPT !.selection = NoSelection])
PreselAmt(w, amt_) ==
    IF w.panic \/ w.selection.kind # "Presel" THEN w
    ELSE IF w.selection.tag \notin DOMAIN w.tags THEN Panic(w)
    ELSE Emit([w EXCEPT !.selection.amt =
                  Clamp(IF get_split(w.selection.side).first THEN F32(@ + amt_)
                        ELSE F32(@ - amt_))])
\* Side::parse_amt, and ClientRequest::ResizeWindow(client, side, amt)
parse_amt(side, amt) ==
    CASE side = "Left" -> <<I16(-amt), 0>>
      [] side = "Right" -> <<amt, 0>>
      [] side = "Top" -> <<0, I16(-amt)>>
      [] side = "Bottom" -> <<0, amt>>
ResizeWindow(w, sel, side, amt) ==
    OnClient(w, sel, LAMBDA a, t, c:
        resize_client(a, t, c, parse_amt(side, amt)[1], parse_amt(side, amt)[2],
                      side = "Left", side = "Top"))
\* WindowManager::handle_request, for the requests that take a SetArg.
handle_request(w, op, sel, arg) ==
    CASE op = "SetFullscreen" -> SetFullscreen(w, sel, arg)
      [] op = "SetFloating" -> SetFloating(w, sel, arg)
      [] op = "SetSticky" -> SetSticky(w, sel, arg)
      [] op = "SetHidden" -> SetHidden(w, sel, arg)
      [] op = "SetLayer" -> SetLayer(w, sel, arg)
      [] op = "SetMonocle" -> SetMonocle(w, sel, arg)
\* get_monitor: a monitor id, or NONE for the focused monitor.
get_monitor(w, mon) ==
    IF mon = NONE THEN w.focused_monitor ELSE IF mon \in DOMAIN w.monitors THEN mon ELSE NONE
\* get_tag on a TagSelection [kind, v]: Index(idx), Name(name), Id(tag),
\* Focused(mon) and Last(mon); NONE when it does not resolve, STALE when the
\* lookup of the monitor unwraps nothing.
TagSelection(kind, v) == [kind |-> kind, v |-> v]
get_tag_selection(w, tag) ==
    IF tag.kind = "Index" THEN (IF InVec(w.tag_order, tag.v) THEN At(w.tag_order, tag.v) ELSE NONE)
    ELSE IF tag.kind \in {"Name", "Id"} THEN (IF tag.v \in DOMAIN w.tags THEN tag.v ELSE NONE)
    ELSE IF get_monitor(w, tag.v) = NONE THEN NONE
    ELSE IF get_monitor(w, tag.v) \notin DOMAIN w.monitors THEN STALE
    ELSE IF tag.kind = "Focused" THEN w.monitors[get_monitor(w, tag.v)].focused_tag
    ELSE w.monitors[get_monitor(w, tag.v)].prev_tag
FocusedMonitorResponse(mon) == [kind |-> "FocusedMonitor", mon |-> mon]
FocusedTagResponse(tag) == [kind |-> "FocusedTag", tag |-> tag]
FocusedWindowResponse(win) == [kind |-> "FocusedWindow", win |-> win]
\* The same without the push of the poll_fd.
Registered_unpolled(w, stream, poll_fd) == [w EXCEPT !.streams = Append(@, stream)]
\* self.aux.streams.push(stream); self.aux.poll_fds.push(poll_fd)
Registered(w, stream, poll_fd) ==
    [w EXCEPT !.streams = Append(@, stream), !.poll_fds = Append(@, poll_fd)]
\* ClientRequest::Reload: mon_close for every monitor, the config script,
\* then mon_open for every monitor; no hook script is installed.
RECURSIVE CloseEach(_, _)
CloseEach(w, todo) ==
    IF todo = {} THEN w ELSE CloseEach(mon_close(w, Min(todo)), todo \ {Min(todo)})
RECURSIVE OpenEach(_, _)
OpenEach(w, todo) ==
    IF todo = {} THEN w ELSE OpenEach(mon_open(w, Min(todo)), todo \ {Min(todo)})
Reload(w) == OpenEach(CloseEach(w, DOMAIN w.monitors), DOMAIN w.monitors)
\* WindowManager::handle_request(stream, poll_fd, request): an arm that does
\* not push the stream and its poll_fd back drops them, which closes the
\* stream, unless it moved the stream into the hooks.
handle_stream_request(d, stream, poll_fd, op, sel, arg) ==
    IF d.panic THEN d
    ELSE IF op = "MonitorFocus"
    THEN (IF get_monitor(d, sel) = NONE THEN d ELSE add_monitor_focus(d, get_monitor(d, sel), stream))
    ELSE IF op = "TagState" THEN add_monitor_tag(d, stream)
    ELSE IF op = "Reload" THEN Reload(d)
    ELSE IF op = "SelectDir" THEN SelectDir(d, sel)
    ELSE IF op = "PreselAmt" THEN PreselAmt(d, sel)
    ELSE IF op = "Rotate" THEN Rotate(d, sel)
    ELSE IF op = "FocusedMonitor"
    THEN Registered(send(d, stream, FocusedMonitorResponse(d.focused_monitor)), stream, poll_fd)
    ELSE IF op = "FocusedTag"
    THEN (IF get_monitor(d, sel) = NONE THEN Registered(d, stream, poll_fd)
          ELSE IF get_monitor(d, sel) \notin DOMAIN d.monitors THEN Panic(d)
          ELSE Registered(send(d, stream,
                               FocusedTagResponse(d.monitors[get_monitor(d, sel)].focused_tag)),
                          stream, poll_fd))
    ELSE IF op = "FocusedWindow"
    THEN Bind(get_tag_selection(d, sel), LAMBDA tag:
              IF tag = NONE THEN d
              ELSE IF tag \notin DOMAIN d.tags THEN Panic(d)
              ELSE Registered(send(d, stream, FocusedWindowResponse(
                                  IF front(d.tags[tag].focus_stack) = NONE THEN NONE
                                  ELSE Cl(d, tag, front(d.tags[tag].focus_stack)).win)),
                              stream, poll_fd))
    ELSE IF op = "FocusTag"
    THEN Bind(get_tag_selection(d, sel), LAMBDA tag:
              IF tag = STALE THEN Panic(d)
              ELSE IF tag = NONE THEN Registered(d, stream, poll_fd)
              ELSE IF tag \notin DOMAIN d.tags THEN Panic(d)
              ELSE Registered(switch_monitor_tag(d, get_monitor(d, NONE),
                                                 SetArg(tag, arg.toggle)), stream, poll_fd))
    ELSE Registered(handle_request(d, op, sel, arg), stream, poll_fd)
\* The loop of handle_connections over streams.drain(..).zip(poll_fds.drain(2..)),
\* from pair k on: `stream` is the one that has something to read, either
\* the end of the peer's data (done) or a request; recieve() finds nothing on
\* the others and they are pushed back.
RECURSIVE Polled(_, _, _, _, _, _, _, _, _)
Polled(d, ss, fds, k, stream, done, op, sel, arg) ==
    IF d.panic \/ k > Len(ss) \/ k > Len(fds) THEN d
    ELSE Polled(IF ss[k] # stream THEN Registered(d, ss[k], fds[k])
                ELSE IF done THEN d
                ELSE handle_stream_request(d, ss[k], fds[k], op, sel, arg),
                ss, fds, k + 1, stream, done, op, sel, arg)
handle_connections(w, stream, done, op, sel, arg) ==
    IF w.panic THEN w
    ELSE Polled([w EXCEPT !.streams = <<>>, !.poll_fds = <<>>], w.streams, w.poll_fds, 1,
                stream, done, op, sel, arg)
\* The accept of handle_connections: the descriptor is registered for
\* polling and the stream is kept.
accept(w, stream) ==
    [w EXCEPT !.poll_fds = Append(@, stream), !.streams = Append(@, stream),
              !.broken = @ \ {stream}]
\* PropertyNotify on a client window.
handle_property_notify(w, win, atom, value) ==
    IF w.panic \/ win \notin DOMAIN w.windows \/ w.windows[win].kind # "Client" THEN w
    ELSE client_property(w, w.windows[win].tag, w.windows[win].client, atom, value)
\* ------------------------------------------------------ events: the pointer
\* EventHandler::drag
NoDrag == [button |-> 0, win |-> 0, prev |-> <<0, 0>>, left |-> FALSE, top |-> FALSE]
get_rect(t, client) ==
    LET cl == At(t.clients, client)
        node == At(t.nodes, cl.node)
    IN  IF cl.flags.fullscreen THEN t.size
        ELSE IF ~cl.flags.floating THEN node.rect
        ELSE node.info.floating
\* handle_button_press for button 3 pressed with a modifier on window win at
\* (x, y): the world and the drag state.
handle_button_press(w, d, win, x, y) ==
    IF w.panic \/ d.button # 0 \/ win \notin DOMAIN w.windows \/ w.windows[win].kind # "Client"
    THEN [w |-> w, drag |-> d]
    ELSE LET loc == w.windows[win]
         IN  IF loc.tag \notin DOMAIN w.tags \/ ~InVec(w.tags[loc.tag].clients, loc.client)
                \/ ~InVec(w.tags[loc.tag].nodes, At(w.tags[loc.tag].clients, loc.client).node)
             THEN [w |-> Panic(w), drag |-> d]
             ELSE IF ~has_rect(w.tags[loc.tag], loc.client) THEN [w |-> w, drag |-> d]
             ELSE LET rect == get_rect(w.tags[loc.tag], loc.client)
                      cx == I16(rect.x + I16(rect.width \div 2))
                      cy == I16(rect.y + I16(rect.height \div 2))
                  IN  [w |-> Emit(w),
                       drag |-> [button |-> 3, win |-> loc.client, prev |-> <<x, y>>,
                                 left |-> cx > x, top |-> cy > y]]
\* handle_button_press for button 1 pressed without a modifier on window win:
\* the client is raised.
handle_button_press_raise(w, d, win) ==
    IF w.panic \/ d.button # 0 \/ win \notin DOMAIN w.windows \/ w.windows[win].kind # "Client"
    THEN w
    ELSE IF w.windows[win].tag \notin DOMAIN w.tags THEN Panic(w)
    ELSE switch_layer(Emit(w), w.windows[win].tag, w.windows[win].client)
\* handle_motion_notify with the pointer at (x, y), for the resize drag.
handle_motion_notify(w, d, x, y) ==
    IF w.panic THEN [w |-> w, drag |-> d]
    ELSE IF NoFocus(w) THEN [w |-> Panic(w), drag |-> d]
    ELSE [w |-> IF d.button = 3
                THEN resize_client(Emit(w), focused_tag(w), d.win,
                                   I16(x - d.prev[1]), I16(y - d.prev[2]), d.left, d.top)
                ELSE Emit(w),
          drag |-> [d EXCEPT !.prev = <<x, y>>]]
handle_button_release(w, d, detail) ==
    IF detail = d.button THEN [w |-> Emit(w), drag |-> [d EXCEPT !.button = 0]]
    ELSE [w |-> w, drag |-> d]
\* ------------------------------------------------------ events and windows
panel_changed(w, mon) ==
    IF w.panic THEN w
    ELSE IF mon \notin DOMAIN w.monitors \/ w.monitors[mon].focused_tag \notin DOMAIN w.tags
    THEN Panic(w)
    ELSE set_tiling_size(w, w.monitors[mon].focused_tag, free_rect(w, mon))
\* `home` is the monitor whose rect contains the panel's geometry, if any.
panel_register(w, mon, win, home) ==
    LET mon_ == IF home \in DOMAIN w.monitors THEN home ELSE mon
    IN  IF w.panic THEN w
        ELSE IF mon_ \notin DOMAIN w.monitors THEN Panic(w)
        ELSE Then(panel_changed(Emit([w EXCEPT !.monitors[mon_].panels = @ \cup {win}]), mon_),
                  LAMBDA w1: [w1 EXCEPT !.windows = Insert(@, win, WinMonitor("Panel", mon_))])
panel_unregister(w, mon, win) ==
    IF w.panic THEN w
    ELSE IF mon \notin DOMAIN w.monitors THEN Panic(w)
    ELSE IF win \in w.monitors[mon].panels
    THEN panel_changed(Emit([w EXCEPT !.monitors[mon].panels = @ \ {win}]), mon)
    ELSE w
desktop_window_register(w, mon, win) ==
    IF w.panic THEN w
    ELSE IF mon \notin DOMAIN w.monitors THEN Panic(w)
    ELSE [Emit(w) EXCEPT !.monitors[mon].desktop_windows = @ \cup {win},
                         !.windows = Insert(@, win, WinMonitor("DesktopWindow", mon))]
desktop_window_unregister(w, mon, win) ==
    IF w.panic THEN w
    ELSE IF mon \notin DOMAIN w.monitors THEN Panic(w)
    ELSE [w EXCEPT !.monitors[mon].desktop_windows = @ \ {win}]
\* `type` is the window's _NET_WM_WINDOW_TYPE as process_type reads it.
manage_window(w, mon, win, type, args, home) ==
    IF type = "Panel" THEN panel_register(w, mon, win, home)
    ELSE IF type = "Desktop" THEN desktop_window_register(w, mon, win)
    ELSE manage_client(process_args(w, args).w, win, process_args(w, args).args)
unmanage_window(w, win) ==
    IF w.panic \/ win \notin DOMAIN w.windows THEN w
    ELSE LET loc == w.windows[win]
         IN  IF loc.kind = "Client"
             THEN IF loc.tag \notin DOMAIN w.tags \/ ~InVec(w.tags[loc.tag].clients, loc.client)
                  THEN Panic(w)
                  ELSE unmanage_client([w EXCEPT !.windows = Remove(@, win)], loc.tag, loc.client)
             ELSE IF loc.kind = "DesktopWindow"
             THEN desktop_window_unregister([w EXCEPT !.windows = Remove(@, win)], loc.mon, win)
             ELSE IF loc.kind = "Panel"
             THEN panel_unregister([w EXCEPT !.windows = Remove(@, win)], loc.mon, win)
             ELSE [w EXCEPT !.windows = Remove(@, win)]
\* WindowManager::set_focus: the monitor that takes the focus.
WindowManager_set_focus(w, mon) ==
    IF w.panic THEN w
    ELSE tag_update(
           IF mon = w.focused_monitor THEN w
           ELSE Then(IF w.focused_monitor \notin DOMAIN w.monitors THEN w
                     ELSE IF focused_tag(w) \notin DOMAIN w.tags THEN Panic(w)
                     ELSE [unset_focus(w, focused_tag(w)) EXCEPT !.prev_monitor = w.focused_monitor],
                     LAMBDA w1:
                       IF mon \notin DOMAIN w1.monitors
                          \/ w1.monitors[mon].focused_tag \notin DOMAIN w1.tags
                       THEN Panic(w1)
                       ELSE set_focus([w1 EXCEPT !.focused_monitor = mon],
                                      w1.monitors[mon].focused_tag)))
handle_enter_notify(w, win) ==
    IF w.panic \/ win \notin DOMAIN w.windows THEN w
    ELSE LET loc == w.windows[win]
         IN  IF loc.kind = "Client"
             THEN IF loc.tag \notin DOMAIN w.tags THEN Panic(w)
                  ELSE Then(IF w.tags[loc.tag].monitor = NONE THEN w
                            ELSE WindowManager_set_focus(w, w.tags[loc.tag].monitor), LAMBDA w1:
                       IF ~InVec(w1.tags[loc.tag].clients, loc.client) THEN Panic(w1)
                       ELSE IF Cl(w1, loc.tag, loc.client).ignore_unmaps = 0
                       THEN focus_client(w1, loc.tag, loc.client)
                       ELSE w1)
             ELSE IF loc.kind = "Monitor" THEN WindowManager_set_focus(w, loc.mon)
             ELSE w
handle_unmap_notify(w, win) ==
    IF w.panic THEN w
    ELSE IF win \in DOMAIN w.windows /\ w.windows[win].kind = "Client"
    THEN LET loc == w.windows[win]
         IN  IF loc.tag \notin DOMAIN w.tags \/ ~InVec(w.tags[loc.tag].clients, loc.client)
             THEN Panic(w)
             ELSE IF Cl(w, loc.tag, loc.client).ignore_unmaps # 0
             THEN SetCl(w, loc.tag, loc.client,
                        [Cl(w, loc.tag, loc.client) EXCEPT !.ignore_unmaps = @ - 1])
             ELSE unmanage_window(w, win)
    ELSE unmanage_window(w, win)
handle_map_request(w, win, type, args, home) ==
    IF w.panic \/ win \in DOMAIN w.windows THEN w
    ELSE manage_window(w, w.focused_monitor, win, type, args, home)
\* The monitors of a set in the order the loop visits them, each with the step
\* taken on it.
RECURSIVE Steps(_, _, _)
Steps(step, todo, down) ==
    IF todo = {} THEN <<>>
    ELSE LET mon == IF down THEN -Min({-m : m \in todo}) ELSE Min(todo)
         IN  <<[step |-> step, mon |-> mon]>> \o Steps(step, todo \ {mon}, down)
update_monitor(w, mon) ==
    IF w.panic THEN w
    ELSE IF w.monitors[mon].focused_tag \notin DOMAIN w.tags THEN Panic(w)
    ELSE resize_all(Emit(w), w.monitors[mon].focused_tag, free_rect(w, mon), w.monitors[mon].size)
RECURSIVE EachMonitor(_, _)
EachMonitor(w, plan) ==
    IF w.panic \/ plan = <<>> THEN w
    ELSE EachMonitor(IF plan[1].step = "update" THEN update_monitor(w, plan[1].mon)
                     ELSE IF plan[1].step = "remove" THEN remove_monitor(w, plan[1].mon)
                     ELSE add_monitor(w, plan[1].mon),
                     Tail(plan))
update_monitors(w, reported, down) ==
    EachMonitor(w, Steps("update", reported \cap DOMAIN w.monitors, FALSE)
                   \o Steps("remove", DOMAIN w.monitors \ reported, down)
                   \o Steps("add", reported \ DOMAIN w.monitors, FALSE))
AddTag(w, id) == add_tag(w, id)
RemoveTag(w, sel) == OnTag(w, sel, remove_tag)

\* ------------------------------------------------------------------ state
VARIABLES tags, tag_order, free_tags, temp_tags, free_temp, monitors,
          focused_monitor, prev_monitor, windows, selection, theme, supporting,
          panic, wire, hooks, streams, poll_fds, broken, out, rules, next_window, request, sent,
          drag, lag, test_stack
vars == <<tags, tag_order, free_tags, temp_tags, free_temp, monitors,
          focused_monitor, prev_monitor, windows, selection, theme, supporting,
          panic, wire, hooks, streams, poll_fds, broken, out, rules, next_window, request,
          sent, drag, lag, test_stack>>
Model == <<tags, tag_order, free_tags, temp_tags, free_temp, monitors,
           focused_monitor, prev_monitor, windows, selection, theme, supporting, panic>>

\* Between two dispatches a Stack is observed only through its linked cells
\* and the handles clients hold into it, so a stored Stack keeps its linked
\* cells in list order and a handle is the position of its cell; a handle
\* whose cell is no longer linked, or belongs to another stack, is STALE.
NormStack(s) ==
    LET h == Handles(s)
        n == Len(h)
    IN  [items |-> [i \in 1..n |-> [item |-> At(s.items, h[i]).item,
                                   next |-> IF i < n THEN i ELSE NONE,
                                   prev |-> IF i > 1 THEN i - 2 ELSE NONE]],
         free |-> <<>>, head |-> IF n = 0 THEN NONE ELSE 0, tail |-> IF n = 0 THEN NONE ELSE n - 1]
Remap(s, handle, c) ==
    LET h == Handles(s)
        hit == {i \in 1..Len(h): h[i] = handle /\ At(s.items, handle).item = c}
    IN  IF hit = {} THEN STALE ELSE Min(hit) - 1
NormTag(t) ==
    [t EXCEPT
       !.focus_stack = NormStack(@),
       !.layers = [i \in 1..9 |-> IF IsSingle(i - 1) THEN @[i] ELSE NormStack(@[i])],
       !.clients = [i \in DOMAIN @ |->
           [@[i] EXCEPT !.stack_pos = Remap(t.focus_stack, @, i - 1),
                        !.layer_pos = IF IsSingle(@.layer) THEN [layer |-> @.layer, idx |-> 0]
                                      ELSE [layer |-> @.layer,
                                            idx |-> Remap(At(t.layers, @.layer), @.idx, i - 1)]]]]
Normalize(w) == [w EXCEPT !.tags = [id \in DOMAIN @ |-> NormTag(@[id])]]

World(pick) ==
    [tags |-> tags, tag_order |-> tag_order, free_tags |-> free_tags, temp_tags |-> temp_tags,
     free_temp |-> free_temp, monitors |-> monitors, focused_monitor |-> focused_monitor,
     prev_monitor |-> prev_monitor, windows |-> windows, selection |-> selection,
     theme |-> theme, supporting |-> supporting, panic |-> FALSE, wire |-> FALSE,
     hooks |-> hooks, streams |-> streams, poll_fds |-> poll_fds, broken |-> broken,
     out |-> <<>>, rules |-> rules,
     stacked |-> <<>>, pick |-> pick]
EmptyWM ==
    [tags |-> <<>>, tag_order |-> <<>>, free_tags |-> {}, temp_tags |-> <<>>, free_temp |-> <<>>,
     monitors |-> <<>>, focused_monitor |-> 0, prev_monitor |-> 0, windows |-> <<>>,
     selection |-> NoSelection, theme |-> Theme, supporting |-> FALSE,
     panic |-> FALSE, wire |-> FALSE,
     hooks |-> NoHooks, streams |-> <<>>, poll_fds |-> <<>>, broken |-> {}, out |-> <<>>,
     rules |-> <<>>,
     stacked |-> <<>>, pick |-> 0]
Is(w) ==
    /\ tags = w.tags /\ tag_order = w.tag_order /\ free_tags = w.free_tags
    /\ temp_tags = w.temp_tags /\ free_temp = w.free_temp /\ monitors = w.monitors
    /\ focused_monitor = w.focused_monitor /\ prev_monitor = w.prev_monitor
    /\ windows = w.windows /\ selection = w.selection /\ theme = w.theme
    /\ supporting = w.supporting /\ panic = w.panic /\ wire = w.wire
    /\ hooks = w.hooks /\ streams = w.streams /\ poll_fds = w.poll_fds
    /\ broken = w.broken /\ out = w.out
    /\ rules = w.rules
Commit(n) ==
    /\ tags' = n.tags /\ tag_order' = n.tag_order /\ free_tags' = n.free_tags
    /\ temp_tags' = n.temp_tags /\ free_temp' = n.free_temp
    /\ monitors' = n.monitors /\ focused_monitor' = n.focused_monitor
    /\ prev_monitor' = n.prev_monitor /\ windows' = n.windows
    /\ selection' = n.selection /\ theme' = n.theme
    /\ supporting' = n.supporting /\ panic' = FALSE /\ wire' = n.wire
    /\ hooks' = n.hooks /\ streams' = n.streams /\ poll_fds' = n.poll_fds
    /\ broken' = n.broken /\ out' = n.out
    /\ rules' = n.rules
\* One dispatch: the handler's result becomes the state; a handler that
\* panics ends the process with the state it was dispatched in.  next_window
\* is the X server's next unused client window id: ids are handed out in
\* increasing order and a destroyed window's id is not handed out again.
\* The X server sends an UnmapNotify for every window a handler unmapped.
\* Unless `lag` is set these events are read, and counted off by
\* handle_unmap_notify, before the next event or request; with `lag` they are
\* read when the action UnmapNotify delivers them, and at most MaxUnmaps of
\* a client are outstanding.
UnmapsHandled(w) ==
    [w EXCEPT !.tags = [id \in DOMAIN @ |->
        [@[id] EXCEPT !.clients = [k \in DOMAIN @ |-> [@[k] EXCEPT !.ignore_unmaps = 0]]]]]
Dispatch(w, nw) ==
    /\ ~panic
    /\ next_window' = nw /\ lag' = lag /\ test_stack' = test_stack
    /\ IF w.panic
       THEN /\ panic' = TRUE /\ out' = <<>>
            /\ UNCHANGED <<tags, tag_order, free_tags, temp_tags, free_temp, monitors,
                           focused_monitor, prev_monitor, windows, selection, theme,
                           supporting, wire, hooks, streams, poll_fds, broken, rules>>
       ELSE IF lag
       THEN /\ \A id \in DOMAIN w.tags : \A k \in DOMAIN w.tags[id].clients :
                   w.tags[id].clients[k].ignore_unmaps <= MaxUnmaps
            /\ Commit(Normalize(w))
       ELSE Commit(Normalize(UnmapsHandled(w)))

\* ---------------------------------------------------------- request log
\* The last request dispatched, how many times in a row it has been
\* dispatched (n), the targeted attribute just before it (cur) and, for a
\* toggle or a rotation, what it may affect as it was before the first of the
\* row (before).  Any other dispatch clears the log.
NoRequest ==
    [op |-> "None", sel |-> NONE, value |-> FALSE, toggle |-> FALSE, cur |-> FALSE,
     n |-> 0, before |-> <<>>, stream |-> 0]
SetOps == {"SetFullscreen", "SetFloating", "SetSticky", "SetHidden", "SetLayer", "SetMonocle"}
Pos(q, x) == IF \E k \in 1..Len(q): q[k] = x THEN Min({k \in 1..Len(q): q[k] = x}) ELSE 0
InLayer(t, layer, c) ==
    IF IsSingle(layer) THEN At(t.layers, layer).client = c
    ELSE Pos(Items(At(t.layers, layer)), c) # 0
\* The attribute of the target that the request sets.
Attr(op, sel) ==
    IF op = "SetMonocle" THEN tags[monitors[focused_monitor].focused_tag].monocle
    ELSE LET cl == At(tags[windows[sel].tag].clients, windows[sel].client)
         IN  CASE op = "SetFullscreen" -> cl.flags.fullscreen
               [] op = "SetFloating" -> cl.flags.floating
               [] op = "SetSticky" -> cl.flags.sticky
               [] op = "SetHidden" -> cl.flags.hidden
               [] op = "SetLayer" -> cl.layer
               [] OTHER -> FALSE
Affected(op, sel) ==
    IF op = "Rotate"
    THEN LET nodes == tags[monitors[focused_monitor].focused_tag].nodes
         IN  [k \in 1..Len(nodes) |-> nodes[k].info]
    ELSE IF op = "SetMonocle" THEN [flag |-> Attr(op, sel)]
    ELSE LET t == tags[windows[sel].tag]
             c == windows[sel].client
             cl == At(t.clients, c)
         IN  [flag |-> Attr(op, sel), last_layer |-> cl.last_layer,
              absent |-> At(t.nodes, cl.node).absent,
              slots |-> {l \in 0..8: InLayer(t, l, c)},
              focus_pos |-> Pos(Items(t.focus_stack), c),
              hidden_pos |-> Pos(t.hidden, c)]
Record(op, sel, value, toggle, row) ==
    LET same == /\ request.op = op /\ request.sel = sel /\ request.toggle = toggle
                /\ request.value = value /\ request.n < row
    IN  [op |-> op, sel |-> sel, value |-> value, toggle |-> toggle, cur |-> Attr(op, sel),
         n |-> IF same THEN request.n + 1 ELSE 1,
         before |-> IF same THEN request.before
                    ELSE IF row > 1 THEN Affected(op, sel) ELSE <<>>,
         stream |-> 0]

\* bin/test-stack.rs: a Stack of its own, the handles the pushes returned for
\* the elements still in it (items) and, for reference, the elements in the
\* order the pushes and removals leave them (list).
NoStack == [stack |-> EmptyStack, items |-> {}, list |-> <<>>, pushed |-> 0]
Init ==
    /\ Is(Normalize(add_monitor(EmptyWM, 1)))
    /\ next_window = 1 /\ request = NoRequest /\ sent = 0 /\ drag = NoDrag /\ lag = FALSE
    /\ test_stack = NoStack
\* The same start, with the server's UnmapNotify events read late.
InitLag ==
    /\ Is(Normalize(add_monitor(EmptyWM, 1)))
    /\ next_window = 1 /\ request = NoRequest /\ sent = 0 /\ drag = NoDrag /\ lag = TRUE
    /\ test_stack = NoStack

\* ---------------------------------------------------------------- actions
Bools == {FALSE, TRUE}
\* The clients of a tag that are not hidden.
Visible(id) ==
    {c \in 0..(Len(tags[id].clients) - 1):
         c \notin tags[id].free_clients /\ ~At(tags[id].clients, c).flags.hidden}
\* ClientArgs::new: the theme's minimum size, no maximum.
Plain ==
    [floating |-> FALSE, fullscreen |-> FALSE, focus |-> TRUE, width |-> 300, height |-> 200,
     min_size |-> <<60, 40>>, max_size |-> <<65535, 65535>>, name |-> NONE,
     class |-> NONE, instance |-> NONE, size |-> <<>>, pos |-> <<>>]
TagIds == 1..MaxTags
MonitorIds == 1..MaxMonitors
\* Top-level windows the server knows: clients, panels and desktop windows.
Managed == {win \in DOMAIN windows: win < FrameBase}
Clients == {win \in Managed: windows[win].kind = "Client"}
Do(w) == Dispatch(w, next_window) /\ request' = NoRequest /\ sent' = sent /\ drag' = drag
\* `pick` resolves the order in which a HashSet of free slots yields them.
Manage(type, args, pick, home) ==
    /\ pick = 0 \/ \E id \in DOMAIN tags: Cardinality(tags[id].free_clients) > 1
    /\ Dispatch(handle_map_request(World(pick), next_window, type, args, home),
                next_window + 1)
    /\ request' = NoRequest /\ sent' = sent /\ drag' = drag
\* `sent` counts the SetArg requests dispatched so far, at most MaxRequests.
Request(op, sel, value, toggle) ==
    /\ sent < MaxRequests /\ sent' = sent + 1
    /\ Dispatch(handle_request(World(0), op, sel, SetArg(value, toggle)), next_window)
    /\ request' = Record(op, sel, value, toggle, IF toggle THEN 2 ELSE 1) /\ drag' = drag

MapRequest ==
    /\ next_window <= MaxWindows
    /\ \E pick \in 0..1: Manage("Client", Plain, pick, NONE)
MapFloating ==
    /\ next_window <= MaxWindows
    /\ \E pick \in 0..1: Manage("Client", [Plain EXCEPT !.floating = TRUE], pick, NONE)
MapFullscreen ==
    /\ next_window <= MaxWindows
    /\ \E pick \in 0..1: Manage("Client", [Plain EXCEPT !.fullscreen = TRUE], pick, NONE)
DestroyNotify == \E win \in Managed: Do(unmanage_window(World(0), win))
\* The same, logged, and a map of a tiled or floating window, for at most
\* MaxLeaves windows.
DestroyLogged ==
    \E win \in Clients:
        /\ Dispatch(unmanage_window(World(0), win), next_window)
        /\ request' = [NoRequest EXCEPT !.op = "DestroyNotify", !.sel = win]
        /\ sent' = sent /\ drag' = drag
MapLeaf ==
    /\ next_window <= MaxLeaves
    /\ \E floating \in Bools: Manage("Client", [Plain EXCEPT !.floating = floating], 0, NONE)
HideFocused ==
    /\ ~panic
    /\ Do(SetHidden(World(0), NONE, SetArg(TRUE, FALSE)))
\* The same with at most MaxClients windows.
MapRequestFew ==
    /\ next_window <= MaxClients
    /\ \E pick \in 0..1: Manage("Client", Plain, pick, NONE)
MapRequestSome ==
    /\ next_window <= MaxLeaves
    /\ \E pick \in 0..1: Manage("Client", Plain, pick, NONE)
MapFloatingFew ==
    /\ next_window <= MaxClients
    /\ \E pick \in 0..1: Manage("Client", [Plain EXCEPT !.floating = TRUE], pick, NONE)
MapPanelFew ==
    /\ next_window <= MaxClients
    /\ \E home \in {NONE} \cup DOMAIN monitors: Manage("Panel", Plain, 0, home)
MapDesktopFew ==
    /\ next_window <= MaxClients
    /\ Manage("Desktop", Plain, 0, NONE)

AddTagRequest ==
    /\ ~panic
    /\ \E id \in TagIds: Do(AddTag(World(0), id))
RemoveTagRequest ==
    /\ ~panic
    /\ \E sel \in {NONE} \cup TagIds: Do(RemoveTag(World(0), sel))
\* The same two requests, logged: `cur` of a RemoveTag tells whether it found
\* no free tag and resolved to a tag shown on a monitor; an AddTag of a new
\* name logs the display order and the tags before it, and a RemoveTag of
\* that tag right after it keeps them.
ReqAddTag ==
    /\ ~panic
    /\ \E id \in TagIds:
        /\ Dispatch(AddTag(World(0), id), next_window)
        /\ request' = [NoRequest EXCEPT !.op = "AddTag", !.sel = id, !.n = 1,
                                        !.cur = id \notin DOMAIN tags,
                                        !.before = [tag_order |-> tag_order,
                                                    tags |-> DOMAIN tags]]
        /\ sent' = sent /\ drag' = drag
ReqRemoveTag ==
    /\ ~panic
    /\ \E sel \in {NONE} \cup TagIds \cup DOMAIN tags:
        /\ Dispatch(RemoveTag(World(0), sel), next_window)
        /\ request' = IF request.op = "AddTag" /\ request.cur /\ request.sel = sel
                      THEN [request EXCEPT !.op = "RemoveTag", !.n = 2,
                                           !.cur = free_tags = {}]
                      ELSE [NoRequest EXCEPT !.op = "RemoveTag", !.sel = sel, !.n = 1,
                                             !.cur = free_tags = {}]
        /\ sent' = sent /\ drag' = drag
\* `sent` also counts the CycleWindow requests.
ReqCycleWindow ==
    /\ ~panic /\ sent < MaxRequests
    /\ \E rev \in Bools:
           /\ Dispatch(CycleWindow(World(0), rev), next_window)
           /\ request' = [NoRequest EXCEPT !.op = "CycleWindow", !.value = rev,
                                           !.n = Cardinality(Visible(focused_tag(World(0)))),
                                           !.before = Items(tags[focused_tag(World(0))].focus_stack)]
           /\ sent' = sent + 1 /\ drag' = drag
\* ConfigGap, logged with the number of times in a row the same gap was sent.
Gaps == {0, 4, 20}
ReqConfigGap ==
    /\ ~panic
    /\ \E gap \in Gaps:
           /\ request.op = "ConfigGap" /\ request.value = gap => request.n < 2
           /\ Dispatch(ConfigGap(World(0), gap), next_window)
           /\ request' = [NoRequest EXCEPT !.op = "ConfigGap", !.value = gap,
                                           !.n = IF request.op = "ConfigGap" /\ request.value = gap
                                                 THEN 2 ELSE 1]
           /\ sent' = sent /\ drag' = drag
FocusTagRequest ==
    /\ ~panic
    /\ \E mon \in {NONE} \cup MonitorIds, tag \in TagIds, toggle \in Bools:
           Do(FocusTag(World(0), mon, tag, toggle))
ScreenChange ==
    /\ ~panic
    /\ \E reported \in SUBSET MonitorIds, down \in Bools:
           /\ reported # DOMAIN monitors
           /\ down => Cardinality(DOMAIN monitors \ reported) > 1
           /\ Do(update_monitors(World(0), reported, down))
MoveToTag ==
    /\ ~panic
    /\ \E tag \in TagIds, toggle \in Bools: Do(SetWindowTag(World(0), NONE, tag, toggle))

ReqSetFullscreen ==
    \E win \in Clients, value \in Bools, toggle \in Bools:
        Request("SetFullscreen", win, value, toggle)
ReqSetFloating ==
    \E win \in Clients, value \in Bools, toggle \in Bools:
        Request("SetFloating", win, value, toggle)
ReqSetSticky ==
    \E win \in Clients, value \in Bools, toggle \in Bools:
        Request("SetSticky", win, value, toggle)
ReqSetHidden ==
    \E win \in Clients, value \in Bools, toggle \in Bools:
        Request("SetHidden", win, value, toggle)
ReqSetLayer ==
    \E win \in Clients, value \in {Below, Normal, Above}, toggle \in Bools:
        Request("SetLayer", win, value, toggle)
ReqSetMonocle ==
    /\ ~panic
    /\ \E value \in Bools, toggle \in Bools: Request("SetMonocle", NONE, value, toggle)

ReqSelect ==
    /\ ~panic
    /\ \E win \in Clients: Do(Select(World(0), win))
ReqSelectParent == ~panic /\ Do(SelectParent(World(0)))
ReqSelectionCancel == selection.kind # "None" /\ Do(SelectionCancel(World(0)))
ReqSelectDir ==
    /\ ~panic
    /\ \E side \in {"Left", "Right", "Top", "Bottom"}: Do(SelectDir(World(0), side))
ReqPreselAmt ==
    /\ selection.kind = "Presel"
    /\ \E amt \in {One}: Do(PreselAmt(World(0), amt))
ReqRotate ==
    /\ ~panic
    /\ \E rev \in Bools:
           /\ Dispatch(Rotate(World(0), rev), next_window)
           /\ request' = Record("Rotate", NONE, rev, FALSE, 4) /\ sent' = sent /\ drag' = drag

\* Resizing: by request and by dragging with button 3.  `sent` also counts
\* the resize requests, the pointer motions and the rotations between them,
\* at most MaxResizes.
RotateRequest ==
    /\ ~panic /\ sent < MaxResizes
    /\ \E rev \in Bools:
           /\ Dispatch(Rotate(World(0), rev), next_window)
           /\ request' = NoRequest /\ sent' = sent + 1 /\ drag' = drag
Sides == {"Left", "Right", "Top", "Bottom"}
ResizeAmts == {-32768, -400, 2000}
PointerX == {0, 959}
PointerY == {0, 1079}
\* The leaf of a client window: its floating rect and size limits.
LeafOf(win) ==
    LET t == tags[windows[win].tag]
    IN  At(t.nodes, At(t.clients, windows[win].client).node).info
ReqResizeWindow ==
    /\ sent < MaxResizes
    /\ \E win \in Clients, side \in Sides, amt \in ResizeAmts:
           /\ Dispatch(ResizeWindow(World(0), win, side, amt), next_window)
           /\ request' = [NoRequest EXCEPT !.op = "ResizeWindow", !.sel = win,
                                           !.value = <<side, amt>>, !.before = LeafOf(win)]
           /\ sent' = sent + 1 /\ drag' = drag
ButtonPress ==
    /\ drag.button = 0
    /\ \E win \in Clients, x \in PointerX, y \in PointerY:
           LET r == handle_button_press(World(0), drag, win, x, y)
           IN  /\ Dispatch(r.w, next_window)
               /\ request' = NoRequest /\ sent' = sent /\ drag' = r.drag
MotionNotify ==
    /\ sent < MaxResizes
    /\ \E x \in PointerX, y \in PointerY:
           LET r == handle_motion_notify(World(0), drag, x, y)
           IN  /\ Dispatch(r.w, next_window)
               /\ request' = NoRequest /\ sent' = sent + 1 /\ drag' = r.drag
\* A click on a window the server shows.
ClickRaise ==
    \E win \in Clients:
        /\ ~At(tags[windows[win].tag].clients, windows[win].client).flags.hidden
        /\ Do(handle_button_press_raise(World(0), drag, win))
ButtonRelease ==
    /\ drag.button # 0
    /\ LET r == handle_button_release(World(0), drag, 3)
       IN  /\ Dispatch(r.w, next_window)
           /\ request' = NoRequest /\ sent' = sent /\ drag' = r.drag

\* ------------------------------------------------------ actions: streams
Streams == 1..MaxStreams
Range(q) == {q[k] : k \in 1..Len(q)}
\* The streams the hooks hold.
Subscribed ==
    Range(hooks.monitor_tags.subs)
        \cup UNION {Range(hooks.monitor_focused[mon].subs) : mon \in DOMAIN hooks.monitor_focused}
Names == {1, 2}
TagSelections ==
    {TagSelection("Index", v) : v \in 0..MaxTags} \cup {TagSelection("Id", v) : v \in TagIds}
        \cup {TagSelection("Name", v) : v \in TagIds}
        \cup {TagSelection("Focused", v) : v \in {NONE} \cup MonitorIds}
\* handle_connections accepts a peer: the stream takes the lowest descriptor
\* not in use.
Connect ==
    /\ ~panic
    /\ Streams \ (Range(streams) \cup Subscribed) # {}
    /\ Do(accept(World(0), Min(Streams \ (Range(streams) \cup Subscribed))))
\* The peer of a stream closes its end.
PeerCloses ==
    /\ ~panic
    /\ \E stream \in (Range(streams) \cup Subscribed) \ broken:
           Do([World(0) EXCEPT !.broken = @ \cup {stream}])
\* handle_connections reads end-of-file from a registered stream and lets it go.
Hangup ==
    /\ ~panic
    /\ \E stream \in Range(streams) \cap broken:
           Do(handle_connections(World(0), stream, TRUE, "None", NONE, SetArg(FALSE, FALSE)))
\* A request read from a registered stream; request.cur tells whether its
\* selector resolved to nothing in the state it was dispatched in.
StreamRequest(stream, op, sel, arg, unresolved) ==
    /\ Dispatch(handle_connections(World(0), stream, FALSE, op, sel, arg), next_window)
    /\ request' = [NoRequest EXCEPT !.op = op, !.value = sel, !.stream = stream,
                                    !.cur = unresolved]
    /\ sent' = sent /\ drag' = drag
SubscribeFocus ==
    /\ ~panic
    /\ \E stream \in Range(streams), mon \in {NONE} \cup MonitorIds:
           StreamRequest(stream, "MonitorFocus", mon, SetArg(FALSE, FALSE),
                         get_monitor(World(0), mon) = NONE)
SubscribeTags ==
    /\ ~panic
    /\ \E stream \in Range(streams):
           StreamRequest(stream, "TagState", NONE, SetArg(FALSE, FALSE), FALSE)
QueryFocusedTag ==
    /\ ~panic
    /\ \E stream \in Range(streams), mon \in {NONE} \cup MonitorIds:
           StreamRequest(stream, "FocusedTag", mon, SetArg(FALSE, FALSE),
                         get_monitor(World(0), mon) = NONE)
QueryFocusedWindow ==
    /\ ~panic
    /\ \E stream \in Range(streams), sel \in TagSelections:
           StreamRequest(stream, "FocusedWindow", sel, SetArg(FALSE, FALSE),
                         get_tag_selection(World(0), sel) = NONE)
StreamFocusTag ==
    /\ ~panic
    /\ \E stream \in Range(streams), sel \in TagSelections:
           StreamRequest(stream, "FocusTag", sel, SetArg(FALSE, FALSE),
                         get_tag_selection(World(0), sel) = NONE)
StreamFocusIndex ==
    /\ ~panic
    /\ \E stream \in Range(streams), idx \in 0..1:
           StreamRequest(stream, "FocusTag", TagSelection("Index", idx), SetArg(FALSE, FALSE),
                         get_tag_selection(World(0), TagSelection("Index", idx)) = NONE)
StreamSetFullscreen ==
    /\ ~panic
    /\ \E stream \in Range(streams), win \in 1..MaxClients, value \in Bools:
           StreamRequest(stream, "SetFullscreen", win, SetArg(value, FALSE),
                         get_client(World(0), win).tag = NONE)
\* AddRule requests, at most MaxRules rules in the list, and the adoption of
\* a window whose WM_NAME reads as `name`, logged with the properties read.
Rules ==
    {Rule(NONE, NONE, name, floating, size, <<>>, temp) :
        name \in {NONE, 1}, floating \in {NONE, 1}, size \in {<<>>, <<100, 100>>},
        temp \in Bools}
ReqAddRule ==
    /\ ~panic /\ Len(rules) < MaxRules
    /\ \E rule \in Rules: Do(AddRule(World(0), rule))
MapRuled ==
    /\ next_window <= MaxClients
    /\ \E name \in Names:
           /\ Dispatch(handle_map_request(World(0), next_window, "Client",
                                           [Plain EXCEPT !.name = name], NONE), next_window + 1)
           /\ request' = [NoRequest EXCEPT !.op = "MapRequest", !.sel = next_window,
                                           !.value = [Plain EXCEPT !.name = name]]
           /\ sent' = sent /\ drag' = drag
\* SelectDir and PreselAmt, counted in `sent` with the CycleWindow requests.
PreselDir ==
    /\ ~panic /\ sent < MaxRequests
    /\ \E side \in Sides:
           /\ Dispatch(SelectDir(World(0), side), next_window)
           /\ request' = NoRequest /\ sent' = sent + 1 /\ drag' = drag
PreselRatio ==
    /\ selection.kind = "Presel" /\ sent < MaxRequests
    /\ \E amt \in {One}:
           /\ Dispatch(PreselAmt(World(0), amt), next_window)
           /\ request' = NoRequest /\ sent' = sent + 1 /\ drag' = drag
\* The adoption of a plain window, logged with the window.
MapLogged ==
    /\ next_window <= MaxLeaves
    /\ Dispatch(handle_map_request(World(0), next_window, "Client", Plain, NONE), next_window + 1)
    /\ request' = [NoRequest EXCEPT !.op = "MapRequest", !.sel = next_window, !.value = Plain]
    /\ sent' = sent /\ drag' = drag
\* The adoption of a window that asks for fullscreen, floating or not.
MapOver ==
    /\ next_window <= MaxClients
    /\ \E floating \in Bools:
           Manage("Client", [Plain EXCEPT !.fullscreen = TRUE, !.floating = floating], 0, NONE)
\* Requests and adoptions logged with the stacking requests set_layer sent
\* for them; the requests are counted in `sent`.
MapStacked ==
    /\ next_window <= MaxClients
    /\ \E floating \in Bools, fullscreen \in Bools:
           /\ Dispatch(handle_map_request(World(0), next_window, "Client",
                                          [Plain EXCEPT !.floating = floating,
                                                        !.fullscreen = fullscreen], NONE),
                       next_window + 1)
           /\ request' = [NoRequest EXCEPT
                             !.op = "MapRequest", !.sel = next_window,
                             !.before = handle_map_request(World(0), next_window, "Client",
                                            [Plain EXCEPT !.floating = floating,
                                                          !.fullscreen = fullscreen],
                                            NONE).stacked]
           /\ sent' = sent /\ drag' = drag
FlagStacked ==
    /\ ~panic /\ sent < MaxRequests
    /\ \E op \in {"SetFloating", "SetFullscreen"}, win \in Clients, value \in Bools:
           /\ Dispatch(handle_request(World(0), op, win, SetArg(value, FALSE)), next_window)
           /\ request' = [NoRequest EXCEPT
                             !.op = op, !.sel = win,
                             !.before = handle_request(World(0), op, win,
                                                       SetArg(value, FALSE)).stacked]
           /\ sent' = sent + 1 /\ drag' = drag
LayerStacked ==
    /\ ~panic /\ sent < MaxRequests
    /\ \E win \in Clients, value \in {Below, Normal, Above}:
           /\ Dispatch(handle_request(World(0), "SetLayer", win, SetArg(value, FALSE)), next_window)
           /\ request' = [NoRequest EXCEPT
                             !.op = "SetLayer", !.sel = win,
                             !.before = handle_request(World(0), "SetLayer", win,
                                                       SetArg(value, FALSE)).stacked]
           /\ sent' = sent + 1 /\ drag' = drag
CycleStacked ==
    /\ ~panic /\ sent < MaxRequests
    /\ \E rev \in Bools:
           /\ Dispatch(CycleWindow(World(0), rev), next_window)
           /\ request' = [NoRequest EXCEPT !.op = "CycleWindow", !.value = rev,
                                           !.before = CycleWindow(World(0), rev).stacked]
           /\ sent' = sent + 1 /\ drag' = drag
\* WindowManager::client_state on a client window.
ClientState ==
    /\ ~panic
    /\ \E win \in Clients, demands \in Bools, action \in 0..3:
           Do(client_state(World(0), windows[win].tag, windows[win].client, demands, action))
\* A RandR change that reports one more output.
MonitorAppears ==
    /\ ~panic
    /\ \E id \in MonitorIds \ DOMAIN monitors:
           Do(update_monitors(World(0), DOMAIN monitors \cup {id}, FALSE))
\* SetSticky on a client, counted in `sent`.
StickyRequest ==
    /\ ~panic /\ sent < MaxRequests
    /\ \E win \in Clients, value \in Bools:
           /\ Dispatch(SetSticky(World(0), win, SetArg(value, FALSE)), next_window)
           /\ request' = NoRequest /\ sent' = sent + 1 /\ drag' = drag
\* FocusTag(monitor, tag, toggle), logged with its arguments and counted in
\* `sent`.
FocusTagLogged ==
    /\ ~panic /\ sent < MaxRequests
    /\ \E mon \in DOMAIN monitors, tag \in DOMAIN tags, toggle \in Bools:
           /\ Dispatch(FocusTag(World(0), mon, tag, toggle), next_window)
           /\ request' = [NoRequest EXCEPT !.op = "FocusTag", !.sel = mon, !.value = tag,
                                           !.toggle = toggle]
           /\ sent' = sent + 1 /\ drag' = drag
\* EnterNotify on the frame of a client or on the background window of a
\* monitor; request.cur tells whether the client's ignore_unmaps was non-zero.
Frames == {win \in DOMAIN windows: windows[win].kind = "Client" /\ win >= FrameBase}
EnterNotify ==
    /\ ~panic
    /\ \E win \in Frames \cup {BgBase + mon : mon \in DOMAIN monitors}:
           /\ Dispatch(handle_enter_notify(World(0), win), next_window)
           /\ request' = [NoRequest EXCEPT !.op = "EnterNotify", !.sel = win,
                             !.cur = /\ win \in Frames
                                     /\ At(tags[windows[win].tag].clients,
                                           windows[win].client).ignore_unmaps # 0]
           /\ sent' = sent /\ drag' = drag
\* UnmapNotify: the unmap of a client window or of its frame.
UnmapNotify ==
    /\ ~panic
    /\ \E win \in DOMAIN windows:
           /\ windows[win].kind = "Client"
           /\ Do(handle_unmap_notify(World(0), win))
StreamSelectDir ==
    /\ ~panic
    /\ \E stream \in Range(streams), side \in Sides:
           StreamRequest(stream, "SelectDir", side, SetArg(FALSE, FALSE), FALSE)
StreamPreselAmt ==
    /\ ~panic /\ selection.kind = "Presel"
    /\ \E stream \in Range(streams), amt \in {One}:
           StreamRequest(stream, "PreselAmt", amt, SetArg(FALSE, FALSE), FALSE)
StreamRotate ==
    /\ ~panic
    /\ \E stream \in Range(streams), rev \in Bools:
           StreamRequest(stream, "Rotate", rev, SetArg(FALSE, FALSE), FALSE)
StreamReload ==
    /\ ~panic
    /\ \E stream \in Range(streams): StreamRequest(stream, "Reload", NONE, SetArg(FALSE, FALSE), FALSE)
MapRequestOne ==
    /\ next_window <= 1
    /\ Manage("Client", Plain, 0, NONE)
MapNamedFew ==
    /\ next_window <= MaxClients
    /\ \E name \in Names: Manage("Client", [Plain EXCEPT !.name = name], 0, NONE)
PropertyName ==
    /\ ~panic
    /\ \E win \in Clients, name \in Names:
           Do(handle_property_notify(World(0), win, "_NET_WM_NAME", name))
PropertyHints ==
    /\ ~panic
    /\ \E win \in Clients, urgent \in Bools:
           Do(handle_property_notify(World(0), win, "WM_HINTS", urgent))

\* ----------------------------------------------------------- tree claims
Idx(v) == 0..(Len(v) - 1)
UsedNodes(t) == {i \in Idx(t.nodes): ~\E k \in 1..Len(t.free_nodes): t.free_nodes[k] = i}
InnerNodes(t) == {i \in UsedNodes(t): At(t.nodes, i).info.kind = "Node"}
Leaves(t) == {i \in UsedNodes(t): At(t.nodes, i).info.kind = "Leaf"}
LiveClients(t) == Idx(t.clients) \ t.free_clients

\* C1: after every dispatch every non-root inner node of every tag is absent
\* exactly when both of its children are absent.
C1_AbsentIsConjunction ==
    \A id \in DOMAIN tags: \A n \in InnerNodes(tags[id]) \ {0}:
        LET t == tags[id]
            i == At(t.nodes, n).info
        IN  /\ InVec(t.nodes, i.first_child) /\ InVec(t.nodes, i.second_child)
            /\ At(t.nodes, n).absent <=>
                 (At(t.nodes, i.first_child).absent /\ At(t.nodes, i.second_child).absent)

\* C2: after every dispatch every leaf of every tag is absent exactly when
\* its client is floating, fullscreen or hidden.
C2_LeafAbsentIsFlags ==
    \A id \in DOMAIN tags: \A l \in Leaves(tags[id]):
        LET t == tags[id]
            c == At(t.nodes, l).info.client
        IN  /\ InVec(t.clients, c)
            /\ At(t.nodes, l).absent <=> flags_absent(At(t.clients, c).flags)

\* C3: after every dispatch the node of every live client is a leaf that
\* names that client.
C3_ClientLeafMutual ==
    \A id \in DOMAIN tags: \A c \in LiveClients(tags[id]):
        LET t == tags[id]
            n == At(t.clients, c).node
        IN  /\ InVec(t.nodes, n)
            /\ At(t.nodes, n).info.kind = "Leaf"
            /\ At(t.nodes, n).info.client = c

\* C4: after every dispatch the first child of every inner node has parent
\* (n, true) and the second child has parent (n, false).
C4_ParentLinks ==
    \A id \in DOMAIN tags: \A n \in InnerNodes(tags[id]):
        LET t == tags[id]
            i == At(t.nodes, n).info
        IN  /\ InVec(t.nodes, i.first_child) /\ InVec(t.nodes, i.second_child)
            /\ At(t.nodes, i.first_child).parent = [idx |-> n, first |-> TRUE]
            /\ At(t.nodes, i.second_child).parent = [idx |-> n, first |-> FALSE]

Once(q, S) == /\ {q[k]: k \in 1..Len(q)} = S
              /\ \A j, k \in 1..Len(q): q[j] = q[k] => j = k
\* C5: after every dispatch the focus stack of every tag holds exactly the
\* live clients that are not hidden and the hidden queue exactly the live
\* clients that are hidden, each once.
C5_FocusHiddenPartition ==
    \A id \in DOMAIN tags:
        LET t == tags[id]
        IN  /\ Once(Items(t.focus_stack), {c \in LiveClients(t): ~At(t.clients, c).flags.hidden})
            /\ Once(t.hidden, {c \in LiveClients(t): At(t.clients, c).flags.hidden})

\* C6: after every dispatch the focused tag of every monitor is bound to that
\* monitor, and every tag bound to a monitor is that monitor's focused tag.
C6_MonitorTagInverse ==
    \A m \in DOMAIN monitors:
        /\ monitors[m].focused_tag \in DOMAIN tags
        /\ tags[monitors[m].focused_tag].monitor = m
        /\ \A id \in DOMAIN tags: tags[id].monitor = m => monitors[m].focused_tag = id

Resolves(win) ==
    LET loc == windows[win]
    IN  IF loc.kind = "Client"
        THEN /\ loc.tag \in DOMAIN tags
             /\ loc.client \in LiveClients(tags[loc.tag])
             /\ win \in {At(tags[loc.tag].clients, loc.client).win,
                         At(tags[loc.tag].clients, loc.client).frame}
        ELSE /\ loc.mon \in DOMAIN monitors
             /\ IF loc.kind = "Panel" THEN win \in monitors[loc.mon].panels
                ELSE IF loc.kind = "DesktopWindow" THEN win \in monitors[loc.mon].desktop_windows
                ELSE win = monitors[loc.mon].bg
\* C7: after every dispatch every live client, panel, desktop and background
\* window is a key of the window map, and every entry of the map resolves to
\* a live object holding that window.
C7_WindowMapExact ==
    /\ \A id \in DOMAIN tags: \A c \in LiveClients(tags[id]):
           /\ At(tags[id].clients, c).win \in DOMAIN windows
           /\ windows[At(tags[id].clients, c).win] = WinClient(id, c)
    /\ \A m \in DOMAIN monitors:
           (monitors[m].panels \cup monitors[m].desktop_windows \cup {monitors[m].bg})
               \subseteq DOMAIN windows
    /\ \A win \in DOMAIN windows: Resolves(win)

\* C8: a SetFullscreen, SetFloating, SetSticky, SetHidden, SetLayer or
\* SetMonocle request with toggle = false and a value equal to the current
\* one changes no model state and puts no request on the X11 wire.
C8_SetCurrentIsNoOp ==
    [][(request'.op \in SetOps /\ ~request'.toggle /\ request'.value = request'.cur)
           => (UNCHANGED Model /\ ~wire')]_vars
C8_Witness ==
    /\ request.op = "SetFullscreen" /\ ~request.toggle /\ request.value /\ request.cur
    /\ ~wire /\ ~panic

Twice == request.op \in SetOps /\ request.toggle /\ request.n = 2 /\ ~panic
Now == Affected(request.op, request.sel)
Four == request.op = "Rotate" /\ request.n = 4 /\ selection.kind # "Node" /\ ~panic
\* C10 (as stated): four rotations at the root in the same direction return
\* every inner node's split, ratio and child order to the starting values.
C10_FourRotationsRestore == Four => Now = request.before
\* C10: four rotations at the root in the same direction return every inner
\* node's split and child order to the starting values, and its ratio r to
\* the f32 value of 1.0 - (1.0 - r), within one ulp of 1.0 - r from r.
C10_FourRotationsRestoreShape ==
    Four => /\ Len(Now) = Len(request.before)
            /\ \A k \in 1..Len(Now):
                   LET a == Now[k]
                       b == request.before[k]
                   IN  IF b.kind # "Node" THEN a = b
                       ELSE /\ a = [b EXCEPT !.ratio = Complement(Complement(@))]
                            /\ a.ratio - b.ratio <= Ulp(One - b.ratio)
                            /\ b.ratio - a.ratio <= Ulp(One - b.ratio)
C10_Witness ==
    /\ Four
    /\ Cardinality({k \in 1..Len(Now): Now[k].kind = "Node"}) >= 2
    /\ \E k \in 1..Len(Now): Now[k].kind = "Node" /\ Now[k].ratio # request.before[k].ratio

\* C11: after every resize request, pointer drag and rotation the ratio of
\* every inner node of every tag lies between Side::MIN (0.1) and Side::MAX
\* (0.9).
C11_RatioInRange ==
    \A id \in DOMAIN tags: \A n \in InnerNodes(tags[id]):
        At(tags[id].nodes, n).info.ratio \in SideMIN..SideMAX
C11_Witness ==
    /\ sent = MaxResizes /\ ~panic
    /\ \E id \in DOMAIN tags: \E n, k \in InnerNodes(tags[id]):
           /\ At(tags[id].nodes, n).info.ratio = SideMIN
           /\ At(tags[id].nodes, k).info.ratio = SideMAX

Within(x, min, max) == IF x > max THEN max ELSE IF x < min THEN min ELSE x
Resized ==
    /\ request.op = "ResizeWindow" /\ ~panic
    /\ request.sel \in DOMAIN windows /\ windows[request.sel].kind = "Client"
    /\ LET cl == At(tags[windows[request.sel].tag].clients, windows[request.sel].client)
       IN  cl.flags.floating /\ ~cl.flags.fullscreen
\* C12: a resize request on a floating client by amt leaves the extent along
\* the side's axis at its old value plus amt held within [min_size,
\* max_size] (max_size when it grows past it, min_size when it shrinks past
\* it, a shrink larger than the current size included) and the other extent
\* as it was.
C12_FloatingResizeClamps ==
    Resized =>
        LET b == request.before
            f == LeafOf(request.sel).floating
            across == request.value[1] \in {"Left", "Right"}
            amt == request.value[2]
        IN  /\ f.width = IF across
                         THEN Within(b.floating.width + amt, b.min_size[1], b.max_size[1])
                         ELSE Within(b.floating.width, b.min_size[1], b.max_size[1])
            /\ f.height = IF across
                          THEN Within(b.floating.height, b.min_size[2], b.max_size[2])
                          ELSE Within(b.floating.height + amt, b.min_size[2], b.max_size[2])

Target == get_tag(World(0), request'.sel)
OnlyShown(t) ==
    /\ t \in DOMAIN tags /\ tags[t].monitor # NONE
    /\ \A u \in DOMAIN tags \ {t}: tags[u].monitor = NONE
\* C13 (as stated): RemoveTag(t) changes no model state when t is the only
\* tag shown on a monitor, every other tag being free or there being none.
C13_RemoveOnlyShownIsNoOp ==
    [][(request'.op = "RemoveTag" /\ focused_monitor \in DOMAIN monitors /\ OnlyShown(Target))
           => UNCHANGED Model]_vars

AddedThenRemoved == request.op = "RemoveTag" /\ request.n = 2
\* C16 (as stated): AddTag of a new name followed by RemoveTag of that tag
\* leaves the display order and the set of tags, temp tags included, as
\* they were before the AddTag.
C16_AddRemoveRestores ==
    AddedThenRemoved =>
        tag_order = request.before.tag_order /\ DOMAIN tags = request.before.tags

Stacking(id) ==
    [focus_stack |-> tags[id].focus_stack, layers |-> tags[id].layers,
     layer_pos |-> [i \in DOMAIN tags[id].clients |-> tags[id].clients[i].layer_pos],
     focused |-> tags[id].focused]
\* C14: a CycleWindow request, in either direction, on a focused tag with
\* fewer than two visible clients returns normally and leaves the tag's
\* focus stack, its layer table, its clients' layer_pos handles and its
\* focused client as they were.
C14_CycleFewIsNoOp ==
    [][(request'.op = "CycleWindow" /\ Cardinality(Visible(focused_tag(World(0)))) < 2)
           => (~panic' /\ Stacking(focused_tag(World(0)))' = Stacking(focused_tag(World(0))))]_vars
C14_Witness ==
    /\ request.op = "CycleWindow" /\ request.n = 1 /\ ~panic
    /\ Len(tags[focused_tag(World(0))].hidden) = 1

\* C15: a ConfigGap(g) sent right after a ConfigGap(g) with the same g
\* changes no model state (the theme's gap, the tiling regions and the node
\* rects included) and configures no window.
C15_SameGapTwiceIsNoOp ==
    [][(request'.op = "ConfigGap" /\ request'.n = 2) => (UNCHANGED Model /\ ~wire')]_vars
C15_Witness ==
    /\ request.op = "ConfigGap" /\ request.n = 2 /\ theme.gap = 20 /\ ~panic /\ ~wire
    /\ \E id \in DOMAIN tags:
           /\ tags[id].monitor # NONE /\ Cardinality(Visible(id)) = 2
           /\ tags[id].tiling_size.width = 1920 - 2 * 20 - 8

\* -------------------------------------------------- stream and hook claims
Queries == {"FocusedMonitor", "FocusedTag", "FocusedWindow"}
\* C17: a request whose selector resolves to nothing (a tag index out of
\* range, an unknown tag name or id, an unknown client window, an unknown
\* monitor) changes no model state and no subscription, writes no response,
\* and when it is a query its stream is still registered afterwards.
C17_UnresolvedIsNoOp ==
    [][(request'.stream # 0 /\ request'.cur)
          => (/\ ~panic' /\ UNCHANGED Model /\ hooks' = hooks /\ out' = <<>>
              /\ request'.op \in Queries => request'.stream \in Range(streams'))]_vars

\* The writes of the step just taken that failed on a stream of the list q,
\* and whether the step wrote `message` to s with success.
Failed(q) == {k \in 1..Len(out') : ~out'[k].ok /\ out'[k].to \in Range(q)}
Delivered(s, message) ==
    \E k \in 1..Len(out') : out'[k] = [to |-> s, message |-> message, ok |-> TRUE]
\* C18: when the write of a hook message to a subscribed stream fails, the
\* stream is in no subscriber list afterwards, and every other stream of the
\* same list (MonitorFocus of the same monitor, or TagState) whose peer is
\* open is still in the list, as long as the monitor is, and was written the
\* same message.
C18_FailedSendDrops ==
    [][/\ \A k \in Failed(hooks.monitor_tags.subs) :
            /\ out'[k].to \notin Subscribed'
            /\ \A s \in Range(hooks.monitor_tags.subs) \ broken :
                   s \in Range(hooks'.monitor_tags.subs) /\ Delivered(s, out'[k].message)
       /\ \A mon \in DOMAIN hooks.monitor_focused :
            \A k \in Failed(hooks.monitor_focused[mon].subs) :
                /\ out'[k].to \notin Subscribed'
                /\ \A s \in Range(hooks.monitor_focused[mon].subs) \ broken :
                       /\ Delivered(s, out'[k].message)
                       /\ mon \in DOMAIN hooks'.monitor_focused
                              => s \in Range(hooks'.monitor_focused[mon].subs)]_vars
C18_Witness ==
    /\ ~panic
    /\ \E k \in 1..Len(out) :
           /\ ~out[k].ok /\ out[k].to \notin Subscribed
           /\ out[k].message.kind = "MonitorFocusedClient"
           /\ \E j \in 1..Len(out) : out[j].ok /\ out[j].message = out[k].message
                                     /\ out[j].to \in Subscribed

\* The name of the client in front of the focus stack of the tag a monitor
\* shows, NONE when there is none.
FocusedName(mon) ==
    LET id == monitors[mon].focused_tag
    IN  IF id \notin DOMAIN tags \/ front(tags[id].focus_stack) = NONE THEN NONE
        ELSE At(tags[id].clients, front(tags[id].focus_stack)).name
\* What the step just taken wrote to stream s with success.
Received(s) == SelectSeq(out', LAMBDA e : e.to = s /\ e.ok)
\* The streams subscribed to MonitorFocus(mon) before and after the step.
Listening(mon) ==
    IF mon \in DOMAIN hooks.monitor_focused /\ mon \in DOMAIN hooks'.monitor_focused
    THEN (Range(hooks.monitor_focused[mon].subs) \cap Range(hooks'.monitor_focused[mon].subs))
             \ broken
    ELSE {}
\* At subscribe time the stream of a MonitorFocus(mon) request is written
\* the name of the focused client of mon.
SubscribeSendsCurrent ==
    (request'.op = "MonitorFocus" /\ ~request'.cur /\ request'.stream \notin broken /\ ~panic')
        => Received(request'.stream)
               = <<[to |-> request'.stream, ok |-> TRUE,
                    message |-> MonitorFocusedClient(
                                    FocusedName(get_monitor(World(0), request'.value)))]>>
\* No change is missed: when a step changes the name of the focused client
\* of mon, every subscriber of mon is written a message, the last of which
\* carries the new name.
NoChangeMissed ==
    \A mon \in DOMAIN monitors \cap DOMAIN monitors' :
        FocusedName(mon)' # FocusedName(mon)
            => \A s \in Listening(mon) :
                   /\ Received(s) # <<>>
                   /\ Received(s)[Len(Received(s))].message
                          = MonitorFocusedClient(FocusedName(mon)')
\* Nothing is sent without a change: a subscriber of mon is written a message
\* only by a step that changes the name of the focused client of mon.
OnlyOnChange ==
    \A mon \in DOMAIN monitors \cap DOMAIN monitors' :
        \A s \in Listening(mon) : Received(s) # <<>> => FocusedName(mon)' # FocusedName(mon)
\* C19: a MonitorFocus(mon) subscriber is written the current name of the
\* focused client of mon when it subscribes, and afterwards a message in
\* exactly the steps that change that name.
C19_FocusNameFollowed ==
    [][SubscribeSendsCurrent /\ NoChangeMissed /\ OnlyOnChange]_vars
\* What a TagState message reports of the state: for every tag of the display
\* order its name, bound monitor, urgent and empty status, and the focused monitor.
Reported ==
    TagStateMessage([k \in 1..Len(tag_order) |-> StateOf(tags[tag_order[k]], DefaultState)],
                    focused_monitor)
LastSent == TagStateMessage(hooks.monitor_tags.states, hooks.monitor_tags.mon)
\* The TagState subscribers before and after the step.
Watching == (Range(hooks.monitor_tags.subs) \cap Range(hooks'.monitor_tags.subs)) \ broken
\* C20: a TagState subscriber is written a message by exactly the steps after
\* which the name, bound monitor, urgent or empty status of some tag, or the
\* focused monitor, differs from the snapshot last sent, and the last message
\* of such a step reports the new state.
C20_TagStateFollowed ==
    [][(~panic' /\ \A k \in 1..Len(tag_order') : tag_order'[k] \in DOMAIN tags')
          => \A s \in Watching :
                 /\ Received(s) # <<>> <=> Reported' # LastSent
                 /\ Received(s) # <<>> => Received(s)[Len(Received(s))].message = Reported']_vars

FocusOrder == Items(tags[focused_tag(World(0))].focus_stack)
FrontToBack(q) == Tail(q) \o <<Head(q)>>
BackToFront(q) == <<q[Len(q)]>> \o SubSeq(q, 1, Len(q) - 1)
Cycled == request'.op = "CycleWindow" /\ Len(FocusOrder) >= 2
FrontFocused == tags[focused_tag(World(0))].focused = Head(FocusOrder)
\* C23: on a focus stack of two or more clients, cycle(reverse = true) moves
\* the front-most client to the back and cycle(reverse = false) moves the
\* back-most client to the front, and the new front is the focused client.
C23_ReverseMovesFrontToBack ==
    [][Cycled => /\ ~panic'
                 /\ FocusOrder' = IF request'.value THEN FrontToBack(FocusOrder)
                                   ELSE BackToFront(FocusOrder)
                 /\ FrontFocused']_vars
\* C23, amended: cycle(reverse = true) moves the back-most client to the
\* front and cycle(reverse = false) moves the front-most client to the back,
\* and the new front is the focused client.
C23_ReverseMovesBackToFront ==
    [][Cycled => /\ ~panic'
                 /\ FocusOrder' = IF request'.value THEN BackToFront(FocusOrder)
                                   ELSE FrontToBack(FocusOrder)
                 /\ FrontFocused']_vars
C23_Witness ==
    /\ request.op = "CycleWindow" /\ request.value /\ ~panic
    /\ Len(request.before) = 3 /\ FocusOrder = BackToFront(request.before)
    /\ FocusOrder # FrontToBack(request.before) /\ FrontFocused

\* The rules that match the adopted window, and the adoption with only the
\* first of them applied and, when it is temp, removed.
Matching(args) == {k \in 1..Len(rules) : ArgsEq(args, rules[k])}
First(args) == Min(Matching(args))
FirstOnly(args) ==
    IF Matching(args) = {} THEN [w |-> World(0), args |-> args]
    ELSE [w |-> [World(0) EXCEPT !.rules =
                    IF rules[First(args)].temp
                    THEN SubSeq(rules, 1, First(args) - 1) \o SubSeq(rules, First(args) + 1, Len(rules))
                    ELSE rules],
          args |-> Rule_apply(rules[First(args)], args)]
Adopted(args) == Normalize(manage_client(FirstOnly(args).w, request'.sel, FirstOnly(args).args))
\* C24: the adoption of a window leaves the clients and the rule list as the
\* adoption with only the first matching rule applied, and removed iff it is
\* temp, leaves them.
C24_FirstMatchingRuleOnly ==
    [][request'.op = "MapRequest"
          => /\ ~panic'
             /\ tags' = Adopted(request'.value).tags
             /\ rules' = Adopted(request'.value).rules]_vars

\* The client D a MapRequest adopted, its leaf, and the node that was split
\* for it: the parent of its leaf (NONE when D took the empty root).
NewLeaf == At(tags'[windows'[request'.sel].tag].clients, windows'[request'.sel].client).node
SplitNode == At(tags'[windows'[request'.sel].tag].nodes, NewLeaf).parent.idx
Orientation(side) == IF side \in {"Left", "Right"} THEN "Vertical" ELSE "Horizontal"
\* The preselection is on the leaf of a live client C of the tag D joins.
PreselOn(node) ==
    /\ selection.kind = "Presel" /\ selection.tag = windows'[request'.sel].tag
    /\ selection.node = node
    /\ \E c \in LiveClients(tags[selection.tag]) :
           /\ At(tags[selection.tag].clients, c).node = node
           /\ At(tags[selection.tag].nodes, node).info.kind = "Leaf"
SiblingAsPreselected ==
    LET t == tags'[selection.tag]
        inner == At(t.nodes, SplitNode).info
        other == IF inner.first_child = NewLeaf THEN inner.second_child ELSE inner.first_child
    IN  /\ inner.kind = "Node"
        /\ inner.split = Orientation(selection.side)
        /\ inner.ratio = selection.amt
        /\ (inner.first_child = NewLeaf) <=> (selection.side \in {"Left", "Top"})
        /\ (inner.second_child = NewLeaf) <=> (selection.side \in {"Right", "Bottom"})
        /\ \E c \in LiveClients(tags[selection.tag]) :
               /\ At(tags[selection.tag].clients, c).node = selection.node
               /\ At(t.clients, c).node = other
               /\ At(t.nodes, other).info = At(tags[selection.tag].nodes, selection.node).info
        /\ selection' = NoSelection
\* C25: when a window is adopted by splitting the leaf the preselection is
\* on, the new leaf is the sibling of that leaf's client on the preselected
\* side (first child for Left and Top, second for Right and Bottom), the
\* split is Vertical for Left and Right and Horizontal for Top and Bottom,
\* its ratio is the preselected one, and the selection is cleared; when
\* another leaf is split, the preselection is left as it was.
C25_PreselConsumedBySplit ==
    [][(request'.op = "MapRequest" /\ selection.kind = "Presel")
          => /\ ~panic'
             /\ (SplitNode # NONE /\ PreselOn(SplitNode)) => SiblingAsPreselected
             /\ (SplitNode # NONE /\ ~PreselOn(SplitNode)) => selection' = selection]_vars
C25_Witness ==
    /\ request.op = "MapRequest" /\ ~panic /\ selection = NoSelection
    /\ \E id \in DOMAIN tags : \E k \in 1..Len(tags[id].nodes) :
           /\ k - 1 \in InnerNodes(tags[id])
           /\ tags[id].nodes[k].info.split = "Horizontal"
           /\ tags[id].nodes[k].info.ratio = SideMAX
           /\ At(tags[id].clients, windows[request.sel].client).node
                  = tags[id].nodes[k].info.first_child

\* The tag monitor request'.sel shows before the FocusTag request, and the tag
\* the request asks for (SetArg::apply_arg on the focused and previous tag).
T1 == monitors[request'.sel].focused_tag
T2 ==
    IF request'.toggle /\ T1 = request'.value THEN monitors[request'.sel].prev_tag
    ELSE request'.value
Switched == request'.op = "FocusTag" /\ T1 \in DOMAIN tags /\ T2 \in DOMAIN tags /\ T1 # T2
\* Slot d of T2 holds, after the request, the client slot c of T1 held before
\* it, as a live client on a leaf of T2's tree.
Migrated(c, d) ==
    /\ d \in LiveClients(tags'[T2])
    /\ At(tags'[T2].clients, d).win = At(tags[T1].clients, c).win
    /\ windows'[At(tags[T1].clients, c).win] = WinClient(T2, d)
    /\ InVec(tags'[T2].nodes, At(tags'[T2].clients, d).node)
    /\ At(tags'[T2].nodes, At(tags'[T2].clients, d).node).info.kind = "Leaf"
    /\ At(tags'[T2].nodes, At(tags'[T2].clients, d).node).info.client = d
StickyFollow ==
    /\ monitors'[request'.sel].focused_tag = T2
    /\ \A c \in monitors[request'.sel].sticky: \E d \in monitors'[request'.sel].sticky: Migrated(c, d)
    /\ \A d \in monitors'[request'.sel].sticky: \E c \in monitors[request'.sel].sticky: Migrated(c, d)
\* C26: when a monitor showing T1 is switched to a tag T2 that no monitor
\* shows, every member of its sticky set is afterwards a live client on a
\* leaf of T2, the sticky set holds exactly their new indices, and T1 is
\* bound to no monitor.
C26_StickyFollowMonitor ==
    [][(Switched /\ tags[T2].monitor = NONE)
          => (~panic' /\ StickyFollow /\ tags'[T1].monitor = NONE)]_vars

\* The monitor that shows T2 before the FocusTag request, if any.
Other == tags[T2].monitor
\* Slot d of tag `to` holds, after the request, the client slot c of tag
\* `from` held before it; Followed: the sticky set of `mon` went that way.
Carried(from, to, c, d) ==
    /\ d \in LiveClients(tags'[to])
    /\ At(tags'[to].clients, d).win = At(tags[from].clients, c).win
    /\ windows'[At(tags[from].clients, c).win] = WinClient(to, d)
Followed(mon, from, to) ==
    /\ \A c \in monitors[mon].sticky: \E d \in monitors'[mon].sticky: Carried(from, to, c, d)
    /\ \A d \in monitors'[mon].sticky: \E c \in monitors[mon].sticky: Carried(from, to, c, d)
SameTag == request'.op = "FocusTag" /\ T1 \in DOMAIN tags /\ T2 = T1
Swapped ==
    /\ monitors'[request'.sel].focused_tag = T2 /\ tags'[T2].monitor = request'.sel
    /\ monitors'[Other].focused_tag = T1 /\ tags'[T1].monitor = Other
    /\ Followed(request'.sel, T1, T2) /\ Followed(Other, T2, T1)
Reattached ==
    /\ monitors'[request'.sel].focused_tag = T2 /\ tags'[T2].monitor = request'.sel
    /\ tags'[T1].monitor = NONE /\ T1 \in free_tags' /\ T2 \notin free_tags'
\* C27: a FocusTag request that asks a monitor for the tag it shows changes
\* nothing; one that asks for a tag another monitor shows swaps the tags of
\* the two monitors, the sticky clients of each following their monitor;
\* one that asks for a tag no monitor shows binds it and leaves the old tag
\* unbound and free.
C27_SwitchMonitorTag ==
    [][/\ SameTag => (~panic' /\ Model' = Model)
       /\ (Switched /\ Other # NONE) => (~panic' /\ Swapped)
       /\ (Switched /\ Other = NONE) => (~panic' /\ Reattached)]_vars

\* Client `old` held the Single slot `slot` of tag id before the step and
\* another client holds it after it, `old` still being a client of the tag.
Evicted(id, slot, old) ==
    /\ IsSingle(slot) /\ old # NONE
    /\ At(tags[id].layers, slot).client = old
    /\ id \in DOMAIN tags' /\ At(tags'[id].layers, slot).client \notin {NONE, old}
    /\ old \in LiveClients(tags'[id])
\* The slot of its user layer an evicted client belongs to.
HomeSlot(cl) == cl.layer + (IF cl.flags.floating THEN FLOATING ELSE TILING)
Restored(id, old) ==
    LET t == tags'[id]
        cl == At(t.clients, old)
        q == Items(At(t.layers, HomeSlot(cl)))
    IN  /\ ~cl.flags.fullscreen
        /\ At(t.nodes, cl.node).absent = (cl.flags.floating \/ cl.flags.hidden)
        /\ {l \in 0..8: InLayer(t, l, old)} = {HomeSlot(cl)}
        /\ Cardinality({k \in 1..Len(q): q[k] = old}) = 1
        /\ cl.layer_pos.layer = HomeSlot(cl)
        /\ InVec(At(t.layers, HomeSlot(cl)).items, cl.layer_pos.idx)
        /\ At(At(t.layers, HomeSlot(cl)).items, cl.layer_pos.idx).item = old
\* C28: a client evicted from a fullscreen slot ends not fullscreen, with its
\* leaf absent exactly when it is floating or hidden, and linked exactly once,
\* in the Tiling or Floating slot of its user layer, where its layer_pos
\* points; the dispatch that evicts it ends without failure.
C28_EvictedRestored ==
    [][\A id \in DOMAIN tags: \A slot \in 0..8:
           Evicted(id, slot, At(tags[id].layers, slot).client)
               => (~panic' /\ Restored(id, At(tags[id].layers, slot).client))]_vars

\* The stacking requests of the last dispatch.
Stacked == IF request.op \in {"MapRequest", "SetFloating", "SetFullscreen", "SetLayer",
                              "CycleWindow"} /\ ~panic
           THEN {request.before[k]: k \in 1..Len(request.before)} ELSE {}
\* The lowest slot the client is to end up beneath, and the non-empty slots
\* from there up and below it.
Bound(e) == e.layer + (IF e.focus THEN 1 ELSE 0)
Upper(e) == {k \in 0..8: k >= Bound(e) /\ e.slots[k + 1] # <<>>}
Lower(e) == {k \in 0..8: k < Bound(e) /\ e.slots[k + 1] # <<>>}
Highest(S) == CHOOSE k \in S: \A j \in S: j <= k
\* C29: every stacking request of set_layer puts the frame below the back
\* of the nearest non-empty slot above its own (its own included when the
\* client is pushed to the back), or, when there is none, above the front of
\* the nearest non-empty slot below; the sibling is never the frame itself.
C29_StackingSibling ==
    \A e \in Stacked:
        /\ Upper(e) # {}
               => e.mode = "Below" /\ e.sibling = e.slots[Min(Upper(e)) + 1][Len(e.slots[Min(Upper(e)) + 1])]
        /\ (Upper(e) = {} /\ Lower(e) # {})
               => e.mode = "Above" /\ e.sibling = e.slots[Highest(Lower(e)) + 1][1]
        /\ e.sibling # e.frame

\* Tag::urgent
Tag_urgent(t) == ~(t.urgent = {} /\ t.psuedo_urgent = {})
Entered == windows[request'.sel]
Focus == [id \in DOMAIN tags |-> [focused |-> tags[id].focused, stack |-> Items(tags[id].focus_stack)]]
\* C22: an EnterNotify on a client whose ignore_unmaps is not zero changes
\* neither the focused monitor nor any tag's focused client or focus stack;
\* an EnterNotify that makes a client the focused one of its tag found its
\* ignore_unmaps at zero.
C22_EnterIgnoredWhileUnmapping ==
    [][(request'.op = "EnterNotify" /\ request'.sel \in Frames)
          => /\ request'.cur => (~panic' /\ focused_monitor' = focused_monitor /\ Focus' = Focus)
             /\ (~panic' /\ tags[Entered.tag].focused # Entered.client
                    /\ tags'[Entered.tag].focused = Entered.client) => ~request'.cur]_vars

\* C21: a Reload leaves every monitor with a hook entry, writes no TagState
\* message, and leaves the TagState subscribers and the MonitorFocus
\* subscribers of every monitor as they were.
C21_ReloadKeepsSubscribers ==
    [][request'.op = "Reload"
          => /\ ~panic'
             /\ DOMAIN hooks'.monitor_focused = DOMAIN monitors
             /\ \A k \in 1..Len(out') : out'[k].message.kind # "TagState"
             /\ hooks'.monitor_tags = hooks.monitor_tags
             /\ \A mon \in DOMAIN monitors \cap DOMAIN hooks.monitor_focused :
                    hooks'.monitor_focused[mon].subs = hooks.monitor_focused[mon].subs]_vars

\* The split ratio of every inner node of a tag, by node index.
Ratios(t) ==
    [k \in 1..Len(t.nodes) |-> IF t.nodes[k].info.kind = "Node" THEN t.nodes[k].info.ratio ELSE NONE]
ResizedClient == At(tags[Entered.tag].clients, Entered.client)
\* C31: a ResizeWindow request on a tiled client of a tag whose monocle flag
\* is set changes no split ratio of the tag.
C31_MonocleResizeKeepsRatios ==
    [][(request'.op = "ResizeWindow" /\ tags[Entered.tag].monocle
           /\ ~ResizedClient.flags.floating /\ ~ResizedClient.flags.fullscreen)
          => (~panic' /\ Ratios(tags'[Entered.tag]) = Ratios(tags[Entered.tag])
                /\ tags'[Entered.tag].nodes = tags[Entered.tag].nodes)]_vars

C31_Witness ==
    /\ request.op = "ResizeWindow" /\ ~panic /\ request.sel \in DOMAIN windows
    /\ LET t == tags[windows[request.sel].tag]
           cl == At(t.clients, windows[request.sel].client)
       IN  /\ t.monocle /\ ~cl.flags.floating /\ ~cl.flags.fullscreen /\ ~cl.flags.hidden
           /\ At(t.nodes, 0).info.kind = "Node" /\ ~At(t.nodes, 0).absent

\* bin/test-stack.rs: the operations of its main, in any order.  Every push
\* stores a new element, numbered from 0; MaxCells bounds the pushes.
WM == <<tags, tag_order, free_tags, temp_tags, free_temp, monitors,
        focused_monitor, prev_monitor, windows, selection, theme, supporting,
        panic, wire, hooks, streams, poll_fds, broken, out, rules, next_window, request, sent,
        drag, lag>>
StackPushFront ==
    /\ test_stack.pushed < MaxCells
    /\ LET p == push_front(test_stack.stack, test_stack.pushed)
       IN  test_stack' = [stack |-> p.s,
                          items |-> test_stack.items \cup {[handle |-> p.idx, item |-> test_stack.pushed]},
                          list |-> <<test_stack.pushed>> \o test_stack.list,
                          pushed |-> test_stack.pushed + 1]
    /\ UNCHANGED WM
StackPushBack ==
    /\ test_stack.pushed < MaxCells
    /\ LET p == push_back(test_stack.stack, test_stack.pushed)
       IN  test_stack' = [stack |-> p.s,
                          items |-> test_stack.items \cup {[handle |-> p.idx, item |-> test_stack.pushed]},
                          list |-> Append(test_stack.list, test_stack.pushed),
                          pushed |-> test_stack.pushed + 1]
    /\ UNCHANGED WM
StackRemoveNode ==
    \E e \in test_stack.items:
        /\ test_stack' = [test_stack EXCEPT !.stack = Stack_remove_node(@, e.handle),
                                            !.items = @ \ {e},
                                            !.list = Without(@, e.item)]
        /\ UNCHANGED WM
\* C32: every handle a push returned and that was not removed since names
\* the cell of its own element, and following the links from the head yields
\* the elements in list order: those pushed to the front before, those pushed
\* to the back after, the removed ones left out.
C32_StackHandlesStable ==
    /\ \A e \in test_stack.items:
           /\ InVec(test_stack.stack.items, e.handle)
           /\ At(test_stack.stack.items, e.handle).item = e.item
    /\ Items(test_stack.stack) = test_stack.list
    /\ front(test_stack.stack) = (IF test_stack.list = <<>> THEN NONE ELSE Head(test_stack.list))
    /\ back(test_stack.stack)
          = (IF test_stack.list = <<>> THEN NONE ELSE test_stack.list[Len(test_stack.list)])
\* After a removal, three elements whose list order is not their arena order.
C32_Witness ==
    /\ Cardinality(test_stack.items) < test_stack.pushed
    /\ Len(test_stack.list) >= 3
    /\ \E i, j \in 1..Len(test_stack.list): i < j /\ Handles(test_stack.stack)[i] > Handles(test_stack.stack)[j]
    /\ \E i, j \in 1..Len(test_stack.list): i < j /\ Handles(test_stack.stack)[i] < Handles(test_stack.stack)[j]

\* The ancestors of a node, nearest first.
RECURSIVE Ancestors(_, _, _)
Ancestors(t, node, fuel) ==
    IF fuel = 0 \/ ~InVec(t.nodes, node) \/ At(t.nodes, node).parent.idx = NONE THEN <<>>
    ELSE <<At(t.nodes, node).parent.idx>> \o Ancestors(t, At(t.nodes, node).parent.idx, fuel - 1)
Count(q, x) == Cardinality({k \in 1..Len(q): q[k] = x})
\* The leaf a DestroyNotify removes, its parent and its sibling, before the
\* removal, and the tag before and after.
Gone == At(tags[Entered.tag].clients, Entered.client).node
GoneParent == At(tags[Entered.tag].nodes, Gone).parent
GoneSibling ==
    IF GoneParent.first THEN At(tags[Entered.tag].nodes, GoneParent.idx).info.second_child
    ELSE At(tags[Entered.tag].nodes, GoneParent.idx).info.first_child
SiblingMoved ==
    LET old == At(tags[Entered.tag].nodes, GoneSibling)
        new == At(tags'[Entered.tag].nodes, GoneParent.idx)
    IN  new.info = old.info /\ new.absent = old.absent
VacatedFreed ==
    /\ Count(tags'[Entered.tag].free_nodes, Gone) = 1
    /\ Count(tags'[Entered.tag].free_nodes, GoneSibling) = 1
    /\ At(tags'[Entered.tag].nodes, Gone).info = EmptyInfo
    /\ At(tags'[Entered.tag].nodes, GoneSibling).info = EmptyInfo
AncestorsConsistent ==
    LET t == tags'[Entered.tag]
        up == Ancestors(t, GoneParent.idx, WalkFuel)
    IN  \A k \in 1..Len(up):
            At(t.nodes, up[k]).absent
                <=> (At(t.nodes, At(t.nodes, up[k]).info.first_child).absent
                       /\ At(t.nodes, At(t.nodes, up[k]).info.second_child).absent)
\* C33: when the leaf of a destroyed client is not the root, its sibling's
\* contents and absent flag are in the parent's slot afterwards, the two
\* vacated slots are Empty and on the free list once each, and every ancestor
\* of the parent is absent exactly when both of its children are.
C33_RemoveLeafCollapses ==
    [][(request'.op = "DestroyNotify" /\ GoneParent.idx # NONE)
          => (~panic' /\ SiblingMoved /\ VacatedFreed /\ AncestorsConsistent)]_vars

\* How many times client c is linked in slot `layer` of tag t.
Linked(t, layer, c) ==
    IF IsSingle(layer) THEN (IF At(t.layers, layer).client = c THEN 1 ELSE 0)
    ELSE Count(Items(At(t.layers, layer)), c)
\* C34: after every dispatch every live client of every tag is linked once
\* in the slot layer.get() + flags.get_layer() and in no other slot, and its
\* layer_pos names that slot and, in a Multi slot, the cell that holds it.
C34_ClientInOneSlot ==
    panic \/ \A id \in DOMAIN tags: \A c \in LiveClients(tags[id]):
        LET t == tags[id]
            cl == At(t.clients, c)
            home == cl.layer + get_layer(cl.flags)
        IN  /\ \A l \in 0..8: Linked(t, l, c) = (IF l = home THEN 1 ELSE 0)
            /\ cl.layer_pos.layer = home
            /\ IsSingle(home)
                  \/ (/\ InVec(At(t.layers, home).items, cl.layer_pos.idx)
                      /\ At(At(t.layers, home).items, cl.layer_pos.idx).item = c)

\* C35: after every dispatch free_tags is the set of the existing tags that
\* are not temp and are bound to no monitor.
C35_FreeTagsExact ==
    panic \/ free_tags = {id \in DOMAIN tags: ~tags[id].temp /\ tags[id].monitor = NONE}

\* The streams a list holds, each counted as often as it is held.
Held(q, s) == Cardinality({k \in 1..Len(q): q[k] = s})
Places(s) ==
    Held(streams, s) + Held(hooks.monitor_tags.subs, s)
        + Cardinality({e \in UNION {{mon} \X (1..Len(hooks.monitor_focused[mon].subs)) :
                                       mon \in DOMAIN hooks.monitor_focused} :
                           hooks.monitor_focused[e[1]].subs[e[2]] = s})
\* C36: after every iteration of handle_connections the registered streams
\* and the poll descriptors after the first two are equally many, the i-th
\* descriptor is that of the i-th stream, and no stream is held twice, be it
\* registered twice, subscribed twice, or registered and subscribed.
C36_StreamsMatchPollFds ==
    /\ Len(streams) = Len(poll_fds)
    /\ \A i \in 1..Len(streams): i <= Len(poll_fds) /\ poll_fds[i] = streams[i]
    /\ \A s \in Streams: Places(s) <= 1
\* Two registered streams that are not in the order of their descriptors,
\* after a request that was read from one of them.
C36_Witness ==
    /\ ~panic /\ Len(streams) = 2 /\ streams[1] > streams[2] /\ request.stream # 0

Commands == {"Reload", "SelectDir", "PreselAmt", "Rotate", "SetFullscreen"}
\* C37: after a command read from a stream whose selector resolved, the
\* stream is registered for polling.
C37_CommandKeepsStream ==
    [][(request'.stream # 0 /\ request'.op \in Commands /\ ~request'.cur)
          => (~panic' /\ Held(streams', request'.stream) = 1)]_vars


\* C38: after every dispatch the focused client of every tag is either None
\* or a live client that is not hidden and is the front of the tag's focus
\* stack.
C38_FocusedIsFront ==
    panic \/ \A id \in DOMAIN tags:
        \/ tags[id].focused = NONE
        \/ /\ tags[id].focused \in LiveClients(tags[id])
           /\ ~At(tags[id].clients, tags[id].focused).flags.hidden
           /\ front(tags[id].focus_stack) = tags[id].focused


\* C39: after every dispatch every index in a monitor's sticky set names a
\* live client of the monitor's focused tag whose sticky flag is set, and
\* every sticky client of a tag shown by a monitor is in that monitor's
\* sticky set.
C39_StickySetExact ==
    panic \/ \A mon \in DOMAIN monitors:
        LET id == monitors[mon].focused_tag
        IN  IF id \in DOMAIN tags
            THEN monitors[mon].sticky
                     = {c \in LiveClients(tags[id]): At(tags[id].clients, c).flags.sticky}
            ELSE monitors[mon].sticky = {}


\* C40: after every dispatch the selection overlay, when it is a Node or a
\* Presel, names an existing tag and a node of that tag that is not on the
\* tag's free_nodes.
C40_SelectionLive ==
    panic \/ selection.kind = "None"
          \/ /\ selection.tag \in DOMAIN tags
             /\ selection.node \in UsedNodes(tags[selection.tag])

NextTree == MapRequest \/ MapFloating \/ DestroyNotify
SpecTree == Init /\ [][NextTree]_vars
NextHide == MapRequest \/ HideFocused \/ DestroyNotify
SpecHide == Init /\ [][NextHide]_vars
NextLayer == MapFullscreen \/ HideFocused \/ DestroyNotify
SpecLayer == Init /\ [][NextLayer]_vars
NextMonitors == AddTagRequest \/ RemoveTagRequest \/ FocusTagRequest \/ ScreenChange
SpecMonitors == Init /\ [][NextMonitors]_vars
NextWindows ==
    \/ MapRequestFew \/ MapPanelFew \/ MapDesktopFew \/ DestroyNotify \/ ScreenChange
    \/ AddTagRequest \/ MoveToTag
SpecWindows == Init /\ [][NextWindows]_vars
NextFlags ==
    \/ MapRequestFew \/ DestroyNotify \/ ReqSetFullscreen \/ ReqSetFloating
    \/ ReqSetSticky \/ ReqSetHidden \/ ReqSetLayer \/ ReqSetMonocle
SpecFlags == Init /\ [][NextFlags]_vars
NextResize ==
    \/ MapRequestSome \/ ReqResizeWindow \/ ButtonPress \/ MotionNotify
    \/ ButtonRelease \/ RotateRequest
SpecResize == Init /\ [][NextResize]_vars
NextFloat == MapFloatingFew \/ ReqResizeWindow \/ ButtonPress \/ MotionNotify \/ ButtonRelease
SpecFloat == Init /\ [][NextFloat]_vars
NextTags == ReqAddTag \/ ReqRemoveTag \/ ScreenChange \/ MapRequestFew
SpecTags == Init /\ [][NextTags]_vars
NextCycle == MapRequestFew \/ ReqSetHidden \/ DestroyNotify \/ ReqCycleWindow
SpecCycle == Init /\ [][NextCycle]_vars
NextGap == MapRequestFew \/ MapPanelFew \/ ScreenChange \/ ReqConfigGap
SpecGap == Init /\ [][NextGap]_vars
NextQuery ==
    \/ Connect \/ MapRequestFew \/ QueryFocusedTag \/ QueryFocusedWindow
    \/ StreamFocusTag \/ StreamSetFullscreen \/ SubscribeFocus
SpecQuery == Init /\ [][NextQuery]_vars
NextHooks ==
    \/ Connect \/ PeerCloses \/ Hangup \/ SubscribeFocus \/ SubscribeTags \/ MapNamedFew
    \/ DestroyNotify \/ PropertyName \/ PropertyHints
SpecHooks == Init /\ [][NextHooks]_vars
NextFocusHook ==
    \/ Connect \/ SubscribeFocus \/ MapNamedFew \/ DestroyNotify \/ PropertyName
    \/ ScreenChange \/ StreamFocusIndex
SpecFocusHook == Init /\ [][NextFocusHook]_vars
NextTagHook ==
    \/ Connect \/ SubscribeTags \/ MapRequestOne \/ PropertyHints \/ ScreenChange
    \/ AddTagRequest
SpecTagHook == Init /\ [][NextTagHook]_vars
NextTurn == MapRequestSome \/ ReqSetHidden \/ DestroyNotify \/ ReqCycleWindow
SpecTurn == Init /\ [][NextTurn]_vars
NextRules == ReqAddRule \/ MapRuled \/ DestroyNotify
SpecRules == Init /\ [][NextRules]_vars
NextPresel == MapLogged \/ PreselDir \/ PreselRatio \/ ReqCycleWindow
SpecPresel == Init /\ [][NextPresel]_vars
NextSticky ==
    MapRequestOne \/ ReqSetSticky \/ ReqAddTag \/ FocusTagLogged \/ DestroyNotify
SpecSticky == Init /\ [][NextSticky]_vars
NextUrgent == MapRequestSome \/ DestroyNotify \/ PropertyHints \/ ClientState
SpecUrgent == Init /\ [][NextUrgent]_vars
NextStack == MapStacked \/ FlagStacked \/ LayerStacked \/ CycleStacked
SpecStack == Init /\ [][NextStack]_vars
NextEvict == MapOver \/ HideFocused \/ ReqSetFullscreen
SpecEvict == Init /\ [][NextEvict]_vars
NextSwitch ==
    MapRequestOne \/ StickyRequest \/ MonitorAppears \/ ReqAddTag \/ FocusTagLogged \/ DestroyNotify
SpecSwitch == Init /\ [][NextSwitch]_vars
NextEnter == MapRequestOne \/ ScreenChange \/ ReqSetHidden \/ EnterNotify \/ UnmapNotify
SpecEnter == InitLag /\ [][NextEnter]_vars
NextReload ==
    Connect \/ PeerCloses \/ SubscribeFocus \/ SubscribeTags \/ MapNamedFew \/ ScreenChange
        \/ StreamReload
SpecReload == Init /\ [][NextReload]_vars
NextRotate == MapRequestSome \/ ReqSelectDir \/ ReqPreselAmt \/ ReqRotate
SpecRotate == Init /\ [][NextRotate]_vars
NextMonocle ==
    \/ MapRequestFew \/ ReqSetMonocle \/ ReqResizeWindow \/ HideFocused \/ DestroyNotify
SpecMonocle == Init /\ [][NextMonocle]_vars
NextStackOps == StackPushFront \/ StackPushBack \/ StackRemoveNode
SpecStackOps == Init /\ [][NextStackOps]_vars
NextRemove == MapLeaf \/ DestroyLogged
SpecRemove == Init /\ [][NextRemove]_vars
NextSlots ==
    \/ MapRequestFew \/ ReqSetFullscreen \/ ReqSetFloating \/ ReqSetLayer \/ ReqSetHidden
    \/ ClickRaise \/ ReqCycleWindow
SpecSlots == Init /\ [][NextSlots]_vars

NextPoll ==
    \/ Connect \/ PeerCloses \/ Hangup \/ SubscribeFocus \/ SubscribeTags \/ QueryFocusedTag
    \/ StreamSetFullscreen \/ MapRequestOne \/ AddTagRequest
SpecPoll == Init /\ [][NextPoll]_vars
NextCommand ==
    \/ Connect \/ MapRequestOne \/ StreamSetFullscreen \/ StreamReload
    \/ StreamSelectDir \/ StreamPreselAmt \/ StreamRotate
SpecCommand == Init /\ [][NextCommand]_vars
NextFocus ==
    MapRequestFew \/ ReqSetHidden \/ DestroyNotify \/ EnterNotify \/ MonitorAppears
        \/ ReqCycleWindow
SpecFocus == Init /\ [][NextFocus]_vars

NextSelect ==
    MapRequestFew \/ ReqSelect \/ ReqSelectParent \/ ReqSelectionCancel \/ ReqSelectDir
        \/ DestroyNotify \/ ReqAddTag \/ MoveToTag
SpecSelect == Init /\ [][NextSelect]_vars
====
